---- MODULE Spec2Model ----
(***************************************************************************)
(* Authentication / session lifecycle of the user-product API.             *)
(*                                                                         *)
(* The state is the users collection of the document store, the wall       *)
(* clock, the requests that are being handled (one per slot, each at one   *)
(* of its await points) and what has been handed out to clients (signed    *)
(* JWTs, e-mailed raw tokens).  Every handler is one action per database   *)
(* round trip: the code between two awaits runs without interruption on     *)
(* the Node event loop, the awaits are where other requests interleave.    *)
(* Requests come from addresses that loginLimiter has not yet throttled.   *)
(***************************************************************************)
EXTENDS Integers, FiniteSets, Sequences, TLC

VARIABLES
  users,    \* the users collection: _id -> document
  nextId,   \* the next ObjectId
  now,      \* the clock, in seconds
  ticks,    \* how often the clock has advanced
  mail,     \* the raw tokens stored so far: raw token k is mail[k], with
            \* its place in the outbox once its e-mail has been sent
  spent,    \* the raw tokens a verifyEmail / resetPassword has accepted
  issued,   \* the JWTs handed to clients
  reqs,     \* the request each slot is handling, at one of its awaits
  last      \* the last step taken: the operation and its response

vars == <<users, nextId, now, ticks, mail, spent, issued, reqs, last>>

----------------------------------------------------------------------------
(* Bounds of the exploration *)

MaxUsers == 2       \* documents ever created (ObjectIds 1..MaxUsers)
MaxTicks == 1       \* clock advances
MaxRaw == 4         \* random ephemeral tokens ever generated (1..MaxRaw)

(* Program constants, in seconds *)
AccessTTL == 900
RefreshTTL == 86400
VerifyTTL == 86400
ResetTTL == 3600

Ids == 1..MaxUsers
Slots == {"s1", "s2"}
SeqSlots == {"s1"}

(* Request bodies are drawn from these *)
RawEmails == {"a@x.com", "A@x.com", "b@x.com"}
Passwords == {"pw1", "pw2"}
Absent == "absent"

----------------------------------------------------------------------------
(* Schema setters, hashing, token codec *)

\* email: { lowercase: true, trim: true }
Lowercase(e) == IF e = "A@x.com" THEN "a@x.com" ELSE e

\* bcrypt.hash(password, 10); bcrypt.compare(p, h) is h = BcryptHash(p)
BcryptHash(p) == <<"bcrypt", p>>

BcryptCompare(p, h) == h = BcryptHash(p)

\* crypto.createHash("sha256").update(rawToken).digest("hex"): injective,
\* never equal to a raw token
Sha256(raw) == 1000 + raw

NoHash == -1
NoDate == -1

NoToken == [kind |-> "none", userId |-> 0, iat |-> 0]
ForgedToken == [kind |-> "forged", userId |-> 0, iat |-> 0]

\* jwt.sign({ userId }, ACCESS_SECRET, { expiresIn: "15m" }): the token is a
\* function of the payload, the second it is signed in and the secret
signAccessToken(userId) == [kind |-> "access", userId |-> userId, iat |-> now]

signRefreshToken(userId) == [kind |-> "refresh", userId |-> userId, iat |-> now]

TokenExp(t) == t.iat + (IF t.kind = "access" THEN AccessTTL ELSE RefreshTTL)

\* jwt.verify(token, secret): signature by that secret and now < exp.
\* ACCESS_TOKEN_SECRET and REFRESH_TOKEN_SECRET are two secrets, so a token
\* verifies only with the secret of its own kind.
JwtVerifyOneSecret(t, kind) == t.kind \in {"access", "refresh"} /\ now < TokenExp(t)
JwtVerify(t, kind) == t.kind = kind /\ now < TokenExp(t)

----------------------------------------------------------------------------
(* The users collection *)

NewDoc(username, email, password, role, refreshToken, prt, pre, evt, eve) ==
  [ username |-> username,
    email |-> Lowercase(email),
    password |-> password,
    role |-> role,
    isVerified |-> FALSE,
    isActive |-> TRUE,
    refreshToken |-> refreshToken,
    emailVerificationToken |-> evt,
    emailVerificationExpires |-> eve,
    passwordResetToken |-> prt,
    passwordResetExpires |-> pre ]

Existing == DOMAIN users

\* The unique indexes of the schema (username: unique, email: unique): a
\* write that would give two documents the same key fails with E11000.
UniqueIndexOff(id, username, email) == FALSE
DuplicateKey(id, username, email) ==
  \E o \in Existing \ {id} :
     users[o].username = username \/ users[o].email = email

Idle == [op |-> "idle", pc |-> "idle"]

\* new ApiError(message, statusCode), as errorHandler answers it
Err(status, msg) == [status |-> status, msg |-> msg]
Ok(status) == [status |-> status, msg |-> "ok"]

\* The response to the request with arguments arg
Respond(s, op, arg, out) ==
  /\ reqs' = [reqs EXCEPT ![s] = Idle]
  /\ last' = [op |-> op, arg |-> arg, status |-> out.status, msg |-> out.msg]

\* The handler waits for the database
Pending(s, r) ==
  /\ reqs' = [reqs EXCEPT ![s] = r]
  /\ last' = [op |-> r.op, arg |-> r.arg, status |-> 0, msg |-> "pending"]

----------------------------------------------------------------------------
Init ==
  /\ users = <<>>
  /\ nextId = 1
  /\ now = 0
  /\ ticks = 0
  /\ mail = <<>>
  /\ spent = {}
  /\ issued = {}
  /\ reqs = [s \in Slots |-> Idle]
  /\ last = [op |-> "none", arg |-> <<>>, status |-> 0, msg |-> ""]

\* Time passes: d seconds
Tick(d) ==
  /\ ticks < MaxTicks
  /\ now' = now + d
  /\ ticks' = ticks + 1
  /\ last' = [op |-> "tick", arg |-> <<d>>, status |-> 0, msg |-> ""]
  /\ UNCHANGED <<users, nextId, mail, spent, issued, reqs>>

----------------------------------------------------------------------------
(* POST /auth/register -> UserService.register(req.body) *)

\* crypto.randomBytes(32).toString("hex"): a value never drawn before.  The
\* raw tokens are numbered in the order in which their hashes are stored.
randomBytes == Len(mail) + 1

\* The raw tokens whose e-mail has been sent: what a client can present
Mailed == {k \in 1..Len(mail) : mail[k].order > 0}

\* resend.emails.send(...): the e-mail with raw token k joins the outbox
Sent(k) == [mail EXCEPT ![k].order = Cardinality(Mailed) + 1]

\* Requests in flight that will still store a random token / create a document
WillDraw ==
  Cardinality({t \in Slots :
     /\ reqs[t].op \in {"register", "resendVerification", "forgotPassword"}
     /\ reqs[t].pc # "mail"})
WillCreate ==
  Cardinality({t \in Slots : reqs[t].op = "register" /\ reqs[t].pc # "mail"})
CanDraw == Len(mail) + WillDraw < MaxRaw
CanCreate == nextId + WillCreate <= MaxUsers

\* const exists = await User.findOne({ $or: [{ email }, { username }] })
\* (the query is cast by the schema, so the e-mail is lowercased)
registerExists(in) ==
  \E o \in Existing :
     users[o].email = Lowercase(in.email) \/ users[o].username = in.username

registerFind(s, in) ==
  /\ reqs[s] = Idle
  /\ IF Absent \in {in.email, in.username, in.password}
       THEN Respond(s, "register", <<in>>, Err(400, "Required fields missing"))
       ELSE IF registerExists(in)
         THEN Respond(s, "register", <<in>>, Err(409, "User already exists"))
         ELSE /\ CanDraw /\ CanCreate
              /\ Pending(s, [op |-> "register", arg |-> <<in>>, pc |-> "hash", in |-> in,
                             at |-> 0, raw |-> 0])
  /\ UNCHANGED <<users, nextId, now, ticks, mail, spent, issued>>

\* const hashedPwd = await bcrypt.hash(password, 10) returns: the token is
\* drawn, the expiry is computed from Date.now() and User.create is called
registerHash(s) ==
  /\ reqs[s].op = "register" /\ reqs[s].pc = "hash"
  /\ Pending(s, [reqs[s] EXCEPT !.pc = "create", !.at = now])
  /\ UNCHANGED <<users, nextId, now, ticks, mail, spent, issued>>

\* User.create({ ...input, password: hashedPwd, isVerified: false,
\*   isActive: true, emailVerificationToken, emailVerificationExpires })
\* The spread keeps every other key of the body: role, refreshToken,
\* passwordResetToken and passwordResetExpires reach the document.
registerDocVerified(in, at) ==
  [ NewDoc(in.username, in.email, BcryptHash(in.password),
         IF in.role = Absent THEN "user" ELSE in.role,
         in.refreshToken, in.passwordResetToken, in.passwordResetExpires,
         Sha256(randomBytes), at + VerifyTTL) EXCEPT !.isVerified = TRUE ]
registerDoc(in, at) ==
  NewDoc(in.username, in.email, BcryptHash(in.password),
         IF in.role = Absent THEN "user" ELSE in.role,
         in.refreshToken, in.passwordResetToken, in.passwordResetExpires,
         Sha256(randomBytes), at + VerifyTTL)

\* The insert of User.create reaches the database.  A duplicate key makes
\* it throw E11000, which errorHandler answers 409 "<field> already exists"
registerCreate(s) ==
  /\ reqs[s].op = "register" /\ reqs[s].pc = "create"
  /\ LET in == reqs[s].in IN
       IF DuplicateKey(0, in.username, Lowercase(in.email))
         THEN /\ Respond(s, "register", reqs[s].arg, Err(409, "already exists"))
              /\ UNCHANGED <<users, nextId, mail>>
         ELSE /\ users' = users @@ (nextId :> registerDoc(in, reqs[s].at))
              /\ nextId' = nextId + 1
              /\ mail' = Append(mail, [kind |-> "verify", at |-> reqs[s].at,
                                       userId |-> nextId, order |-> 0])
              /\ Pending(s, [reqs[s] EXCEPT !.pc = "mail", !.raw = randomBytes])
  /\ UNCHANGED <<now, ticks, spent, issued>>

\* await EmailService.sendVerificationEmail(email, rawToken) returns (the
\* Resend client reports a failure in its result and does not throw), and
\* the controller answers 201
registerMail(s) ==
  /\ reqs[s].op = "register" /\ reqs[s].pc = "mail"
  /\ mail' = Sent(reqs[s].raw)
  /\ Respond(s, "register", reqs[s].arg, Ok(201))
  /\ UNCHANGED <<users, nextId, now, ticks, spent, issued>>

----------------------------------------------------------------------------
(* Mongoose document.save() is an update of the modified paths of the      *)
(* document with that _id, and throws DocumentNotFoundError (answered 500) *)
(* when the document is gone.                                              *)

(* POST /auth/resend-verification -> UserService.resendVerificationEmail *)

FindByEmail(email) == {o \in Existing : users[o].email = Lowercase(email)}

resendVerificationEmailFind(s, email) ==
  /\ reqs[s] = Idle
  /\ LET found == FindByEmail(email) IN
       IF found = {} \/ \E o \in found : users[o].isVerified
         THEN Respond(s, "resendVerification", <<email>>, Ok(200))
         ELSE /\ CanDraw
              /\ \E o \in found :
                   Pending(s, [op |-> "resendVerification", arg |-> <<email>>, pc |-> "save",
                               id |-> o, email |-> email, at |-> now, raw |-> 0])
  /\ UNCHANGED <<users, nextId, now, ticks, mail, spent, issued>>

\* The update of save() reaches the database: the token pair that was
\* assigned when findOne returned is written
resendVerificationEmailSave(s) ==
  /\ reqs[s].op = "resendVerification" /\ reqs[s].pc = "save"
  /\ LET id == reqs[s].id IN
       IF id \notin Existing
         THEN /\ Respond(s, "resendVerification", reqs[s].arg, Err(500, "Internal Server Error"))
              /\ UNCHANGED <<users, mail>>
         ELSE /\ users' = [users EXCEPT
                   ![id].emailVerificationToken = Sha256(randomBytes),
                   ![id].emailVerificationExpires = reqs[s].at + VerifyTTL]
              /\ mail' = Append(mail, [kind |-> "verify", at |-> reqs[s].at,
                                       userId |-> id, order |-> 0])
              /\ Pending(s, [reqs[s] EXCEPT !.pc = "mail", !.raw = randomBytes])
  /\ UNCHANGED <<nextId, now, ticks, spent, issued>>

\* await EmailService.sendVerificationEmail(email, rawToken) returns and
\* the controller answers 200
resendVerificationEmailMail(s) ==
  /\ reqs[s].op = "resendVerification" /\ reqs[s].pc = "mail"
  /\ mail' = Sent(reqs[s].raw)
  /\ Respond(s, "resendVerification", reqs[s].arg, Ok(200))
  /\ UNCHANGED <<users, nextId, now, ticks, spent, issued>>

----------------------------------------------------------------------------
(* GET /auth/verify-email?token= -> UserService.verifyEmail(token) *)

\* User.findOne({ emailVerificationToken: hashedToken,
\*                emailVerificationExpires: { $gt: new Date() } })
\* The filter is built when verifyEmail is called, with the date of that
\* moment (at); the documents it is matched against are those of the
\* moment the query runs
verifyEmailMatches(token, at) ==
  {o \in Existing :
     /\ users[o].emailVerificationToken = Sha256(token)
     /\ users[o].emailVerificationExpires > at}

\* The request arrives: the token is hashed, new Date() is read and
\* findOne is sent
verifyEmail(s, token) ==
  /\ reqs[s] = Idle
  /\ Pending(s, [op |-> "verifyEmail", arg |-> <<token>>, pc |-> "find", id |-> 0,
                 token |-> token, at |-> now])
  /\ UNCHANGED <<users, nextId, now, ticks, mail, spent, issued>>

\* findOne returns: null is answered 400, a document goes on to save()
verifyEmailFind(s) ==
  /\ reqs[s].op = "verifyEmail" /\ reqs[s].pc = "find"
  /\ LET r == reqs[s] IN
       IF verifyEmailMatches(r.token, r.at) = {}
         THEN Respond(s, "verifyEmail", r.arg, Err(400, "Invalid or expired token"))
         ELSE \E o \in verifyEmailMatches(r.token, r.at) :
                Pending(s, [r EXCEPT !.pc = "save", !.id = o])
  /\ UNCHANGED <<users, nextId, now, ticks, mail, spent, issued>>

\* user.isVerified = true; both token fields = undefined; save().  The
\* token fields are select: false, so assigning undefined marks them
\* modified whatever the stored value is and the update unsets them.
verifiedDocKeepsToken(doc) == [doc EXCEPT !.isVerified = TRUE]
verifiedDoc(doc) ==
  [doc EXCEPT !.isVerified = TRUE,
              !.emailVerificationToken = NoHash,
              !.emailVerificationExpires = NoDate]

verifyEmailSave(s) ==
  /\ reqs[s].op = "verifyEmail" /\ reqs[s].pc = "save"
  /\ LET id == reqs[s].id IN
       IF id \notin Existing
         THEN /\ Respond(s, "verifyEmail", reqs[s].arg, Err(500, "Internal Server Error"))
              /\ UNCHANGED <<users, spent>>
         ELSE /\ users' = [users EXCEPT ![id] = verifiedDoc(@)]
              /\ spent' = spent \cup {reqs[s].token}
              /\ Respond(s, "verifyEmail", reqs[s].arg, Ok(200))
  /\ UNCHANGED <<nextId, now, ticks, mail, issued>>

----------------------------------------------------------------------------
(* POST /auth/login -> UserService.login(identifier, password) *)

\* User.findOne({ $or: [{ email: identifier }, { username: identifier }] }):
\* any one of the matching documents, or null (0)
loginMatches(identifier) ==
  {o \in Existing :
     users[o].email = Lowercase(identifier) \/ users[o].username = identifier}

loginFound(identifier) ==
  IF loginMatches(identifier) = {} THEN {0} ELSE loginMatches(identifier)

\* What login answers for the document doc that findOne returned, once
\* bcrypt.compare has returned
loginCheckStateFirst(doc, password) ==
  IF ~doc.isVerified THEN Err(403, "Please verify your email")
  ELSE IF ~doc.isActive THEN Err(403, "Account is disabled")
  ELSE IF ~BcryptCompare(password, doc.password)
    THEN Err(401, "Invalid credentials")
  ELSE Ok(200)
loginCheck(doc, password) ==
  IF ~BcryptCompare(password, doc.password)
    THEN Err(401, "Invalid credentials")
  ELSE IF ~doc.isVerified THEN Err(403, "Please verify your email")
  ELSE IF ~doc.isActive THEN Err(403, "Account is disabled")
  ELSE Ok(200)

\* findOne returns: null is answered 401, a document goes to bcrypt.compare
loginFind(s, identifier, password) ==
  /\ reqs[s] = Idle
  /\ \E o \in loginFound(identifier) :
       IF o = 0
         THEN Respond(s, "login", <<identifier, password>>, Err(401, "Invalid credentials"))
         ELSE Pending(s, [op |-> "login", arg |-> <<identifier, password>>, pc |-> "compare",
                          id |-> o, identifier |-> identifier, password |-> password,
                          doc |-> users[o],
                          refreshToken |-> users[o].refreshToken,
                          accessTkn |-> NoToken, refreshTkn |-> NoToken])
  /\ UNCHANGED <<users, nextId, now, ticks, mail, spent, issued>>

\* bcrypt.compare returns and the code runs on to the next await: the
\* checks on the document that was loaded, then accessTkn and refreshTkn
\* are signed, user.refreshToken = refreshTkn and save() is called
loginCompare(s) ==
  /\ reqs[s].op = "login" /\ reqs[s].pc = "compare"
  /\ LET r == reqs[s] IN
       IF loginCheck(r.doc, r.password).status # 200
         THEN Respond(s, "login", r.arg, loginCheck(r.doc, r.password))
         ELSE Pending(s, [r EXCEPT !.pc = "save",
                                   !.accessTkn = signAccessToken(r.id),
                                   !.refreshTkn = signRefreshToken(r.id)])
  /\ UNCHANGED <<users, nextId, now, ticks, mail, spent, issued>>

\* save() reaches the database and login returns both tokens.
\* refreshToken was selected, so the path counts as modified only when the
\* new token differs from the loaded one; with no modified path save()
\* only looks the document up by _id.  Either way a document that is gone
\* makes it throw DocumentNotFoundError.
loginSaveFirstWins(s) ==
  /\ reqs[s].op = "login" /\ reqs[s].pc = "save"
  /\ LET id == reqs[s].id
         written == /\ reqs[s].refreshToken # reqs[s].refreshTkn
                    /\ users[id].refreshToken = reqs[s].refreshToken IN
       IF id \notin Existing
         THEN /\ Respond(s, "login", reqs[s].arg, Err(500, "Internal Server Error"))
              /\ UNCHANGED <<users, issued>>
         ELSE /\ users' = IF written
                            THEN [users EXCEPT ![id].refreshToken = reqs[s].refreshTkn]
                            ELSE users
              /\ issued' = issued \cup {reqs[s].accessTkn, reqs[s].refreshTkn}
              /\ reqs' = [reqs EXCEPT ![s] = Idle]
              /\ last' = [op |-> "login", arg |-> reqs[s].arg, status |-> 200,
                          msg |-> "ok", refreshTkn |-> reqs[s].refreshTkn]
  /\ UNCHANGED <<nextId, now, ticks, mail, spent>>
loginSave(s) ==
  /\ reqs[s].op = "login" /\ reqs[s].pc = "save"
  /\ LET id == reqs[s].id
         written == reqs[s].refreshToken # reqs[s].refreshTkn IN
       IF id \notin Existing
         THEN /\ Respond(s, "login", reqs[s].arg, Err(500, "Internal Server Error"))
              /\ UNCHANGED <<users, issued>>
         ELSE /\ users' = IF written
                            THEN [users EXCEPT ![id].refreshToken = reqs[s].refreshTkn]
                            ELSE users
              /\ issued' = issued \cup {reqs[s].accessTkn, reqs[s].refreshTkn}
              /\ reqs' = [reqs EXCEPT ![s] = Idle]
              /\ last' = [op |-> "login", arg |-> reqs[s].arg, status |-> 200,
                          msg |-> "ok", refreshTkn |-> reqs[s].refreshTkn]
  /\ UNCHANGED <<nextId, now, ticks, mail, spent>>

----------------------------------------------------------------------------
(* POST /auth/forgot-password -> UserService.forgotPassword(email) *)

\* if (!user) return; the controller then answers 200 with a fixed message
forgotPasswordFindReveals(s, email) ==
  /\ reqs[s] = Idle
  /\ LET found == FindByEmail(email) IN
       IF found = {}
         THEN Respond(s, "forgotPassword", <<email>>, Err(404, "User not found"))
         ELSE /\ CanDraw
              /\ \E o \in found :
                   Pending(s, [op |-> "forgotPassword", arg |-> <<email>>, pc |-> "save",
                               id |-> o, email |-> email, at |-> now, raw |-> 0])
  /\ UNCHANGED <<users, nextId, now, ticks, mail, spent, issued>>
forgotPasswordFind(s, email) ==
  /\ reqs[s] = Idle
  /\ LET found == FindByEmail(email) IN
       IF found = {}
         THEN Respond(s, "forgotPassword", <<email>>, Ok(200))
         ELSE /\ CanDraw
              /\ \E o \in found :
                   Pending(s, [op |-> "forgotPassword", arg |-> <<email>>, pc |-> "save",
                               id |-> o, email |-> email, at |-> now, raw |-> 0])
  /\ UNCHANGED <<users, nextId, now, ticks, mail, spent, issued>>

\* new Date(Date.now() + 60 * 60 * 1000), with Date.now() = at
resetExpires(at) == at + ResetTTL

\* The update of save() reaches the database: the token pair that was
\* assigned when findOne returned is written
forgotPasswordSave(s) ==
  /\ reqs[s].op = "forgotPassword" /\ reqs[s].pc = "save"
  /\ LET id == reqs[s].id IN
       IF id \notin Existing
         THEN /\ Respond(s, "forgotPassword", reqs[s].arg, Err(500, "Internal Server Error"))
              /\ UNCHANGED <<users, mail>>
         ELSE /\ users' = [users EXCEPT
                   ![id].passwordResetToken = Sha256(randomBytes),
                   ![id].passwordResetExpires = resetExpires(reqs[s].at)]
              /\ mail' = Append(mail, [kind |-> "reset", at |-> reqs[s].at,
                                       userId |-> id, order |-> 0])
              /\ Pending(s, [reqs[s] EXCEPT !.pc = "mail", !.raw = randomBytes])
  /\ UNCHANGED <<nextId, now, ticks, spent, issued>>

\* await EmailService.sendPasswordResetEmail(email, rawToken) returns and
\* the controller answers 200
forgotPasswordMail(s) ==
  /\ reqs[s].op = "forgotPassword" /\ reqs[s].pc = "mail"
  /\ mail' = Sent(reqs[s].raw)
  /\ Respond(s, "forgotPassword", reqs[s].arg, Ok(200))
  /\ UNCHANGED <<users, nextId, now, ticks, spent, issued>>

----------------------------------------------------------------------------
(* POST /auth/reset-password -> UserService.resetPassword(token, newPassword) *)

\* User.findOne({ passwordResetToken: hashedToken,
\*                passwordResetExpires: { $gt: new Date() } }), the date
\* being that of the call (at)
resetPasswordMatches(token, at) ==
  {o \in Existing :
     /\ users[o].passwordResetToken = Sha256(token)
     /\ users[o].passwordResetExpires > at}

\* The request arrives: the token is hashed, new Date() is read and
\* findOne is sent
resetPassword(s, token, newPassword) ==
  /\ reqs[s] = Idle
  /\ Pending(s, [op |-> "resetPassword", arg |-> <<token, newPassword>>, pc |-> "find",
                 id |-> 0, token |-> token, newPassword |-> newPassword, at |-> now])
  /\ UNCHANGED <<users, nextId, now, ticks, mail, spent, issued>>

\* findOne returns: null is answered 400, a document goes on to
\* bcrypt.hash and save()
resetPasswordFind(s) ==
  /\ reqs[s].op = "resetPassword" /\ reqs[s].pc = "find"
  /\ LET r == reqs[s] IN
       IF resetPasswordMatches(r.token, r.at) = {}
         THEN Respond(s, "resetPassword", r.arg, Err(400, "Invalid or expired token"))
         ELSE \E o \in resetPasswordMatches(r.token, r.at) :
                Pending(s, [r EXCEPT !.pc = "save", !.id = o])
  /\ UNCHANGED <<users, nextId, now, ticks, mail, spent, issued>>

\* password (not selected) is written; the reset pair is unset
resetPasswordSaveKeepsPair(s) ==
  /\ reqs[s].op = "resetPassword" /\ reqs[s].pc = "save"
  /\ LET id == reqs[s].id IN
       IF id \notin Existing
         THEN /\ Respond(s, "resetPassword", reqs[s].arg, Err(500, "Internal Server Error"))
              /\ UNCHANGED <<users, spent>>
         ELSE /\ users' = [users EXCEPT
                   ![id].password = BcryptHash(reqs[s].newPassword)]
              /\ spent' = spent \cup {reqs[s].token}
              /\ Respond(s, "resetPassword", reqs[s].arg, Ok(200))
  /\ UNCHANGED <<nextId, now, ticks, mail, issued>>
resetPasswordSaveEndsSession(s) ==
  /\ reqs[s].op = "resetPassword" /\ reqs[s].pc = "save"
  /\ LET id == reqs[s].id IN
       IF id \notin Existing
         THEN /\ Respond(s, "resetPassword", reqs[s].arg, Err(500, "Internal Server Error"))
              /\ UNCHANGED <<users, spent>>
         ELSE /\ users' = [users EXCEPT
                   ![id].password = BcryptHash(reqs[s].newPassword),
                   ![id].refreshToken = NoToken,
                   ![id].passwordResetToken = NoHash,
                   ![id].passwordResetExpires = NoDate]
              /\ spent' = spent \cup {reqs[s].token}
              /\ Respond(s, "resetPassword", reqs[s].arg, Ok(200))
  /\ UNCHANGED <<nextId, now, ticks, mail, issued>>
resetPasswordSave(s) ==
  /\ reqs[s].op = "resetPassword" /\ reqs[s].pc = "save"
  /\ LET id == reqs[s].id IN
       IF id \notin Existing
         THEN /\ Respond(s, "resetPassword", reqs[s].arg, Err(500, "Internal Server Error"))
              /\ UNCHANGED <<users, spent>>
         ELSE /\ users' = [users EXCEPT
                   ![id].password = BcryptHash(reqs[s].newPassword),
                   ![id].passwordResetToken = NoHash,
                   ![id].passwordResetExpires = NoDate]
              /\ spent' = spent \cup {reqs[s].token}
              /\ Respond(s, "resetPassword", reqs[s].arg, Ok(200))
  /\ UNCHANGED <<nextId, now, ticks, mail, issued>>

----------------------------------------------------------------------------
(* POST /auth/refresh -> UserService.refresh(cookies.jwt) *)

\* What a client can put in the jwt cookie or the Authorization header:
\* nothing, a string the server never signed, or a token it was handed
Presentable == {NoToken, ForgedToken} \cup issued

\* if (!cookieRefreshToken) 401; jwt.verify with the refresh secret, 403
\* when it throws: what refresh decides before it awaits findById
refreshVerify(T) ==
  IF T = NoToken THEN Err(401, "Unauthorized")
  ELSE IF ~JwtVerify(T, "refresh")
    THEN Err(403, "Forbidden: Expired or Invalid Refresh Token")
  ELSE Ok(200)

\* What refresh decides on the document findById returns
refreshLoadNoReuse(T) ==
  IF T.userId \notin Existing \/ ~users[T.userId].isActive
    THEN Err(401, "Unauthorized")
  ELSE Ok(200)
refreshLoadReuseFirst(T) ==
  IF T.userId \notin Existing THEN Err(401, "Unauthorized")
  ELSE IF users[T.userId].refreshToken # T
    THEN Err(403, "Forbidden: Invalid Token")
  ELSE IF ~users[T.userId].isActive THEN Err(401, "Unauthorized")
  ELSE Ok(200)
refreshLoad(T) ==
  IF T.userId \notin Existing \/ ~users[T.userId].isActive
    THEN Err(401, "Unauthorized")
  ELSE IF users[T.userId].refreshToken # T
    THEN Err(403, "Forbidden: Invalid Token")
  ELSE Ok(200)

\* The answer to a refresh that arrives now and whose findById returns now
refreshCheck(T) ==
  IF refreshVerify(T).status # 200 THEN refreshVerify(T) ELSE refreshLoad(T)

\* The request arrives: the cookie is verified and findById is sent
refresh(s, T) ==
  /\ reqs[s] = Idle
  /\ IF refreshVerify(T).status # 200
       THEN Respond(s, "refresh", <<T>>, refreshVerify(T))
       ELSE Pending(s, [op |-> "refresh", arg |-> <<T>>, pc |-> "find", token |-> T])
  /\ UNCHANGED <<users, nextId, now, ticks, mail, spent, issued>>

\* findById returns.
\* return { accessToken: signAccessToken(user._id) }; nothing is saved
refreshFindRotates(s) ==
  /\ reqs[s].op = "refresh" /\ reqs[s].pc = "find"
  /\ LET T == reqs[s].token IN
       /\ issued' = IF refreshLoad(T).status = 200
                      THEN issued \cup {signAccessToken(T.userId), signRefreshToken(T.userId)}
                      ELSE issued
       /\ users' = IF refreshLoad(T).status = 200
                     THEN [users EXCEPT ![T.userId].refreshToken = signRefreshToken(T.userId)]
                     ELSE users
       /\ Respond(s, "refresh", <<T>>, refreshLoad(T))
  /\ UNCHANGED <<nextId, now, ticks, mail, spent>>
refreshFindRevokesOnReuse(s) ==
  /\ reqs[s].op = "refresh" /\ reqs[s].pc = "find"
  /\ LET T == reqs[s].token IN
       /\ issued' = IF refreshLoad(T).status = 200
                      THEN issued \cup {signAccessToken(T.userId)}
                      ELSE issued
       /\ users' = IF refreshLoad(T).msg = "Forbidden: Invalid Token"
                     THEN [users EXCEPT ![T.userId].refreshToken = NoToken]
                     ELSE users
       /\ Respond(s, "refresh", <<T>>, refreshLoad(T))
  /\ UNCHANGED <<nextId, now, ticks, mail, spent>>
refreshFind(s) ==
  /\ reqs[s].op = "refresh" /\ reqs[s].pc = "find"
  /\ LET T == reqs[s].token IN
       /\ issued' = IF refreshLoad(T).status = 200
                      THEN issued \cup {signAccessToken(T.userId)}
                      ELSE issued
       /\ Respond(s, "refresh", <<T>>, refreshLoad(T))
  /\ UNCHANGED <<users, nextId, now, ticks, mail, spent>>

----------------------------------------------------------------------------
(* POST /auth/logout -> UserService.logout(cookies.jwt) *)

\* User.findOne({ refreshToken: cookieRefreshToken })
logoutMatches(T) == {o \in Existing : users[o].refreshToken = T}

logoutFind(s, T) ==
  /\ reqs[s] = Idle
  /\ IF T = NoToken \/ logoutMatches(T) = {}
       THEN Respond(s, "logout", <<T>>, Ok(200))
       ELSE \E o \in logoutMatches(T) :
              Pending(s, [op |-> "logout", arg |-> <<T>>, pc |-> "save", id |-> o, token |-> T])
  /\ UNCHANGED <<users, nextId, now, ticks, mail, spent, issued>>

\* user.refreshToken = undefined; save().  refreshToken is select: false and
\* was not selected, so the update unsets it whatever is stored by then.
logoutSave(s) ==
  /\ reqs[s].op = "logout" /\ reqs[s].pc = "save"
  /\ LET id == reqs[s].id IN
       IF id \notin Existing
         THEN /\ Respond(s, "logout", reqs[s].arg, Err(500, "Internal Server Error"))
              /\ UNCHANGED users
         ELSE /\ users' = [users EXCEPT ![id].refreshToken = NoToken]
              /\ Respond(s, "logout", reqs[s].arg, Ok(200))
  /\ UNCHANGED <<nextId, now, ticks, mail, spent, issued>>

----------------------------------------------------------------------------
(* authProtect, then the routes behind it *)

\* The Authorization header: missing, not of the Bearer form, or Bearer T
Headers ==
  {[scheme |-> "none", token |-> NoToken], [scheme |-> "Basic", token |-> NoToken]}
  \cup {[scheme |-> "Bearer", token |-> T] : T \in Presentable \ {NoToken}}

\* What authProtect decides before it awaits findById: the header, then
\* jwt.verify with the access secret (its throw is caught and answered 403)
authProtectVerify(h) ==
  IF h.scheme # "Bearer" THEN Err(401, "Unauthorized: No token provided")
  ELSE IF ~JwtVerify(h.token, "access")
    THEN Err(403, "Forbidden: Invalid or expired token")
  ELSE Ok(200)

\* What it decides on the document findById returns.  Every throw inside
\* the try block, the 404 and the "disabled" 403 included, is caught and
\* rethrown as 403.
authProtectLoadShows404(h) ==
  IF h.token.userId \notin Existing
    THEN Err(404, "User no longer exists")
  ELSE IF ~users[h.token.userId].isActive
    THEN Err(403, "Account is disabled")
  ELSE Ok(200)
authProtectLoadNoActive(h) ==
  IF h.token.userId \notin Existing
    THEN Err(403, "Forbidden: Invalid or expired token")
  ELSE Ok(200)
authProtectLoadSession(h) ==
  IF \/ h.token.userId \notin Existing
     \/ ~users[h.token.userId].isActive
     \/ users[h.token.userId].refreshToken = NoToken
    THEN Err(403, "Forbidden: Invalid or expired token")
  ELSE Ok(200)
authProtectLoad(h) ==
  IF \/ h.token.userId \notin Existing
     \/ ~users[h.token.userId].isActive
    THEN Err(403, "Forbidden: Invalid or expired token")
  ELSE Ok(200)

\* The answer of the gate to a request that arrives now and whose findById
\* returns now
authProtectCheck(h) ==
  IF authProtectVerify(h).status # 200 THEN authProtectVerify(h) ELSE authProtectLoad(h)

\* restrictTo("admin") on PATCH /users/:id/admin
restrictToCheck(route, role) ==
  IF route = "adminUpdateUser" /\ role # "admin"
    THEN Err(403, "You do not have permission to perform this action")
    ELSE Ok(200)

\* isStrongPassword(pass): at least 8 characters with a lower-case and an
\* upper-case letter, a digit and a special character
StrongPassword == "Passw0rd!"

isStrongPassword(pass) == pass = StrongPassword

\* body("username"): 2 to 15 characters of [a-zA-Z0-9_]
PlainNames == {"alice", "bob"}

\* updateUserValidation, validateRequest on PATCH /users/me: both fields
\* are optional; the route documents the answer 422 "Validation error"
updateUserValidation(in) ==
  /\ in.username # Absent => in.username \in PlainNames
  /\ in.password # Absent => isStrongPassword(in.password)

validateRequestCheck(route, in) ==
  IF route = "updateProfile" /\ ~updateUserValidation(in)
    THEN Err(422, "Validation error")
    ELSE Ok(200)

\* A request arrives at a route behind the gate: the header is read, the
\* token is verified and findById is sent
authProtect(s, h, route, target, in) ==
  /\ reqs[s] = Idle
  /\ IF authProtectVerify(h).status # 200
       THEN Respond(s, "authProtect", <<h, target, in>>, authProtectVerify(h))
       ELSE Pending(s, [op |-> "authProtect", arg |-> <<h, target, in>>, pc |-> "find",
                        route |-> route, h |-> h, target |-> target, in |-> in])
  /\ UNCHANGED <<users, nextId, now, ticks, mail, spent, issued>>

\* findById returns: req.userId = decoded.userId; req.userRole = user.role;
\* next(), and the middleware between authProtect and the controller
authProtectFind(s) ==
  /\ reqs[s].op = "authProtect" /\ reqs[s].pc = "find"
  /\ LET r == reqs[s]
         h == r.h
         role == users[h.token.userId].role IN
       IF authProtectLoad(h).status # 200
         THEN Respond(s, "authProtect", r.arg, authProtectLoad(h))
         ELSE IF restrictToCheck(r.route, role).status # 200
           THEN Respond(s, r.route, r.arg, restrictToCheck(r.route, role))
         ELSE IF validateRequestCheck(r.route, r.in).status # 200
           THEN Respond(s, r.route, r.arg, validateRequestCheck(r.route, r.in))
           ELSE Pending(s, [op |-> r.route, arg |-> r.arg, pc |-> "handler",
                            userId |-> h.token.userId, userRole |-> role,
                            target |-> r.target, in |-> r.in, loaded |-> ""])
  /\ UNCHANGED <<users, nextId, now, ticks, mail, spent, issued>>

----------------------------------------------------------------------------
(* PATCH /users/me -> UserService.updateProfile(req.userId, req.body) *)

\* const user = await User.findById(id), then the checks on the body:
\* forbidden is the set of the keys email, role and isActive it carries
updateProfileFindNoGuard(s) ==
  /\ reqs[s].op = "updateProfile" /\ reqs[s].pc = "handler"
  /\ LET r == reqs[s] IN
       IF r.userId \notin Existing
         THEN Respond(s, "updateProfile", reqs[s].arg, Err(404, "User not found"))
       ELSE Pending(s, [r EXCEPT
              !.pc = IF r.in.username # Absent THEN "check" ELSE "save",
              !.loaded = users[r.userId].username])
  /\ UNCHANGED <<users, nextId, now, ticks, mail, spent, issued>>
updateProfileFind(s) ==
  /\ reqs[s].op = "updateProfile" /\ reqs[s].pc = "handler"
  /\ LET r == reqs[s] IN
       IF r.userId \notin Existing
         THEN Respond(s, "updateProfile", reqs[s].arg, Err(404, "User not found"))
       ELSE IF "email" \in r.in.forbidden
         THEN Respond(s, "updateProfile", reqs[s].arg, Err(400, "Email cannot be changed"))
       ELSE IF "role" \in r.in.forbidden \/ "isActive" \in r.in.forbidden
         THEN Respond(s, "updateProfile", reqs[s].arg, Err(403, "Forbidden"))
       ELSE Pending(s, [r EXCEPT
              !.pc = IF r.in.username # Absent THEN "check" ELSE "save",
              !.loaded = users[r.userId].username])
  /\ UNCHANGED <<users, nextId, now, ticks, mail, spent, issued>>

\* User.findOne({ username: input.username, _id: { $ne: id } })
updateProfileCheck(s) ==
  /\ reqs[s].op = "updateProfile" /\ reqs[s].pc = "check"
  /\ LET r == reqs[s] IN
       IF \E o \in Existing \ {r.userId} : users[o].username = r.in.username
         THEN Respond(s, "updateProfile", reqs[s].arg, Err(409, "Username already taken"))
         ELSE Pending(s, [r EXCEPT !.pc = "save"])
  /\ UNCHANGED <<users, nextId, now, ticks, mail, spent, issued>>

\* save(): username is written when it differs from the loaded one,
\* password (not selected) whenever it is assigned; a duplicate user name
\* makes the update throw E11000, which errorHandler answers 409.  With
\* nothing to write save() only looks the document up by _id; a document
\* that is gone makes it throw DocumentNotFoundError either way.
updateProfileSave(s) ==
  /\ reqs[s].op = "updateProfile" /\ reqs[s].pc = "save"
  /\ LET r == reqs[s]
         id == r.userId
         setName == r.in.username # Absent /\ r.in.username # r.loaded
         setPwd == r.in.password # Absent IN
       IF id \notin Existing
         THEN /\ Respond(s, "updateProfile", reqs[s].arg, Err(500, "Internal Server Error"))
              /\ UNCHANGED users
       ELSE IF setName /\ DuplicateKey(id, r.in.username, users[id].email)
         THEN /\ Respond(s, "updateProfile", reqs[s].arg, Err(409, "already exists"))
              /\ UNCHANGED users
       ELSE /\ users' = IF setName \/ setPwd
                           THEN [users EXCEPT
                                  ![id].username = IF setName THEN r.in.username ELSE @,
                                  ![id].password = IF setPwd THEN BcryptHash(r.in.password) ELSE @]
                           ELSE users
            /\ Respond(s, "updateProfile", reqs[s].arg, Ok(200))
  /\ UNCHANGED <<nextId, now, ticks, mail, spent, issued>>

----------------------------------------------------------------------------
(* PATCH /users/:id/admin -> UserService.adminUpdateUser(id, req.body, req.userId) *)

\* The :id of the path is a string.  An ObjectId has one lower-case hex
\* string, the one toHexString() returns and the tokens carry (the id
\* itself here), and the same digits in upper case are another string.
UpperHex(id) == 100 + id

\* findByIdAndUpdate and findByIdAndDelete cast the string to an ObjectId,
\* and the cast reads hex digits of either case
castObjectId(str) == IF str > 100 THEN str - 100 ELSE str

adminUpdateUserFind(s) ==
  /\ reqs[s].op = "adminUpdateUser" /\ reqs[s].pc = "handler"
  /\ LET r == reqs[s] IN
       IF r.in.other
         THEN Respond(s, "adminUpdateUser", reqs[s].arg, Err(400, "Field cannot be updated by admin"))
       ELSE IF r.userId \notin Existing \/ users[r.userId].role # "admin"
         THEN Respond(s, "adminUpdateUser", reqs[s].arg, Err(403, "Admin privileges required"))
       ELSE IF r.target = r.userId /\ r.in.role = "user"
         THEN Respond(s, "adminUpdateUser", reqs[s].arg, Err(400, "Admin cannot demote themselves"))
       ELSE Pending(s, [r EXCEPT !.pc = "update"])
  /\ UNCHANGED <<users, nextId, now, ticks, mail, spent, issued>>

\* User.findByIdAndUpdate(targetUserId, input, { new: true, runValidators: true })
adminUpdateUserUpdateEndsSession(s) ==
  /\ reqs[s].op = "adminUpdateUser" /\ reqs[s].pc = "update"
  /\ LET r == reqs[s]
         target == castObjectId(r.target) IN
       IF target \notin Existing
         THEN /\ Respond(s, "adminUpdateUser", reqs[s].arg, Err(404, "User not found"))
              /\ UNCHANGED users
         ELSE /\ users' = [users EXCEPT
                   ![target].role = IF r.in.role # Absent THEN r.in.role ELSE @,
                   ![target].isActive =
                      IF r.in.isActive # Absent THEN r.in.isActive = "true" ELSE @,
                   ![target].refreshToken = IF r.in.isActive = "false" THEN NoToken ELSE @]
              /\ Respond(s, "adminUpdateUser", reqs[s].arg, Ok(200))
  /\ UNCHANGED <<nextId, now, ticks, mail, spent, issued>>
adminUpdateUserUpdateVerifies(s) ==
  /\ reqs[s].op = "adminUpdateUser" /\ reqs[s].pc = "update"
  /\ LET r == reqs[s]
         target == castObjectId(r.target) IN
       IF target \notin Existing
         THEN /\ Respond(s, "adminUpdateUser", reqs[s].arg, Err(404, "User not found"))
              /\ UNCHANGED users
         ELSE /\ users' = [users EXCEPT
                   ![target].role = IF r.in.role # Absent THEN r.in.role ELSE @,
                   ![target].isActive =
                      IF r.in.isActive # Absent THEN r.in.isActive = "true" ELSE @,
                   ![target].isVerified = TRUE]
              /\ Respond(s, "adminUpdateUser", reqs[s].arg, Ok(200))
  /\ UNCHANGED <<nextId, now, ticks, mail, spent, issued>>
adminUpdateUserUpdate(s) ==
  /\ reqs[s].op = "adminUpdateUser" /\ reqs[s].pc = "update"
  /\ LET r == reqs[s]
         target == castObjectId(r.target) IN
       IF target \notin Existing
         THEN /\ Respond(s, "adminUpdateUser", reqs[s].arg, Err(404, "User not found"))
              /\ UNCHANGED users
         ELSE /\ users' = [users EXCEPT
                   ![target].role = IF r.in.role # Absent THEN r.in.role ELSE @,
                   ![target].isActive =
                      IF r.in.isActive # Absent THEN r.in.isActive = "true" ELSE @]
              /\ Respond(s, "adminUpdateUser", reqs[s].arg, Ok(200))
  /\ UNCHANGED <<nextId, now, ticks, mail, spent, issued>>

----------------------------------------------------------------------------
(* DELETE /users/:id -> UserService.deleteUser(id, req.userId, req.userRole) *)

deleteUser(s) ==
  /\ reqs[s].op = "deleteUser" /\ reqs[s].pc = "handler"
  /\ LET r == reqs[s]
         target == castObjectId(r.target) IN
       IF r.userId # r.target /\ r.userRole # "admin"
         THEN /\ Respond(s, "deleteUser", reqs[s].arg,
                   Err(403, "You do not have permission to delete this account"))
              /\ UNCHANGED users
       ELSE IF target \notin Existing
         THEN /\ Respond(s, "deleteUser", reqs[s].arg, Err(404, "User not found"))
              /\ UNCHANGED users
       ELSE /\ users' = [o \in Existing \ {target} |-> users[o]]
            /\ Respond(s, "deleteUser", reqs[s].arg, Ok(200))
  /\ UNCHANGED <<nextId, now, ticks, mail, spent, issued>>

----------------------------------------------------------------------------
(* Specifications *)

\* Two registration bodies.  The first asks for the admin role and a user
\* name that is the second one's e-mail address: POST /auth/register runs
\* no validation chain, so nothing keeps a user name from being one.
Body(email, username, password) ==
  [ email |-> email, username |-> username, password |-> password,
    role |-> Absent, refreshToken |-> NoToken,
    passwordResetToken |-> NoHash, passwordResetExpires |-> NoDate ]

Admin1 == [Body("a@x.com", "b@x.com", "pw1") EXCEPT !.role = "admin"]

User2 == Body("b@x.com", "alice", "pw2")

RefreshTokens == {t \in issued : t.kind = "refresh"}

\* ... and the second one carrying a refreshToken key
SessionBodies ==
  {Admin1, User2} \cup {[User2 EXCEPT !.refreshToken = t] : t \in RefreshTokens}

SessionIdentifiers == {"a@x.com", "b@x.com", "alice", "nobody"}

SetActive == {[role |-> Absent, isActive |-> a, other |-> FALSE] : a \in {"true", "false"}}

\* The session lifecycle, one request at a time
Next ==
  \/ \E s \in SeqSlots, in \in SessionBodies : registerFind(s, in)
  \/ \E s \in SeqSlots : registerHash(s)
  \/ \E s \in SeqSlots : registerCreate(s)
  \/ \E s \in SeqSlots : registerMail(s)
  \/ \E s \in SeqSlots, t \in {0} \cup Mailed : verifyEmail(s, t)
  \/ \E s \in SeqSlots : verifyEmailFind(s)
  \/ \E s \in SeqSlots : verifyEmailSave(s)
  \/ \E s \in SeqSlots, i \in SessionIdentifiers, p \in Passwords :
       loginFind(s, i, p)
  \/ \E s \in SeqSlots : loginCompare(s)
  \/ \E s \in SeqSlots : loginSave(s)
  \/ \E s \in SeqSlots, T \in Presentable : refresh(s, T)
  \/ \E s \in SeqSlots : refreshFind(s)
  \/ \E s \in SeqSlots, T \in Presentable : logoutFind(s, T)
  \/ \E s \in SeqSlots : logoutSave(s)
  \/ \E s \in SeqSlots, h \in Headers, target \in Ids, in \in SetActive :
       authProtect(s, h, "adminUpdateUser", target, in)
  \/ \E s \in SeqSlots : authProtectFind(s)
  \/ \E s \in SeqSlots : adminUpdateUserFind(s)
  \/ \E s \in SeqSlots : adminUpdateUserUpdate(s)
  \/ \E s \in SeqSlots, h \in Headers, target \in Ids :
       authProtect(s, h, "deleteUser", target, [none |-> TRUE])
  \/ \E s \in SeqSlots : deleteUser(s)
  \/ \E d \in {1, RefreshTTL} : Tick(d)

Spec == Init /\ [][Next]_vars

\* The raw tokens of one kind that were e-mailed so far
RawOf(kind) == {k \in Mailed : mail[k].kind = kind}

\* A date a client may write into a request body: long after every expiry
FarDate == 10 * VerifyTTL

\* The two registration bodies, and the second one carrying the hash of a
\* reset token its sender was mailed and an expiry date of its choosing
EphemeralBodies ==
  {Admin1, User2}
  \cup {[User2 EXCEPT !.passwordResetToken = Sha256(k),
                      !.passwordResetExpires = FarDate] : k \in RawOf("reset")}

\* E-mail verification and password reset, one request at a time.  Token 0
\* is a string that was never e-mailed.
NextEphemeral ==
  \/ \E s \in SeqSlots, in \in EphemeralBodies : registerFind(s, in)
  \/ \E s \in SeqSlots : registerHash(s)
  \/ \E s \in SeqSlots : registerCreate(s)
  \/ \E s \in SeqSlots : registerMail(s)
  \/ \E s \in SeqSlots, e \in RawEmails : resendVerificationEmailFind(s, e)
  \/ \E s \in SeqSlots : resendVerificationEmailSave(s)
  \/ \E s \in SeqSlots : resendVerificationEmailMail(s)
  \/ \E s \in SeqSlots, t \in {0} \cup Mailed : verifyEmail(s, t)
  \/ \E s \in SeqSlots : verifyEmailFind(s)
  \/ \E s \in SeqSlots : verifyEmailSave(s)
  \/ \E s \in SeqSlots, e \in RawEmails : forgotPasswordFind(s, e)
  \/ \E s \in SeqSlots : forgotPasswordSave(s)
  \/ \E s \in SeqSlots : forgotPasswordMail(s)
  \/ \E s \in SeqSlots, t \in {0} \cup Mailed, p \in Passwords :
       resetPassword(s, t, p)
  \/ \E s \in SeqSlots : resetPasswordFind(s)
  \/ \E s \in SeqSlots : resetPasswordSave(s)
  \/ \E d \in {1, ResetTTL, VerifyTTL} : Tick(d)

SpecEphemeral == Init /\ [][NextEphemeral]_vars

\* Requests for a reset e-mail and password resets, one request at a time,
\* with registrations that carry a reset token
NextForgot ==
  \/ \E s \in SeqSlots, in \in EphemeralBodies : registerFind(s, in)
  \/ \E s \in SeqSlots : registerHash(s)
  \/ \E s \in SeqSlots : registerCreate(s)
  \/ \E s \in SeqSlots : registerMail(s)
  \/ \E s \in SeqSlots, e \in {"a@x.com", "b@x.com"} : forgotPasswordFind(s, e)
  \/ \E s \in SeqSlots : forgotPasswordSave(s)
  \/ \E s \in SeqSlots : forgotPasswordMail(s)
  \/ \E s \in SeqSlots, t \in RawOf("reset"), p \in Passwords :
       resetPassword(s, t, p)
  \/ \E s \in SeqSlots : resetPasswordFind(s)
  \/ \E s \in SeqSlots : resetPasswordSave(s)
  \/ \E d \in {ResetTTL} : Tick(d)

SpecForgot == Init /\ [][NextForgot]_vars

\* Password resets of an account that is logged in, one request at a time
NextReset ==
  \/ \E s \in SeqSlots : registerFind(s, User2)
  \/ \E s \in SeqSlots : registerHash(s)
  \/ \E s \in SeqSlots : registerCreate(s)
  \/ \E s \in SeqSlots : registerMail(s)
  \/ \E s \in SeqSlots, t \in RawOf("verify") : verifyEmail(s, t)
  \/ \E s \in SeqSlots : verifyEmailFind(s)
  \/ \E s \in SeqSlots : verifyEmailSave(s)
  \/ \E s \in SeqSlots, p \in Passwords : loginFind(s, "alice", p)
  \/ \E s \in SeqSlots : loginCompare(s)
  \/ \E s \in SeqSlots : loginSave(s)
  \/ \E s \in SeqSlots, T \in RefreshTokens : refresh(s, T)
  \/ \E s \in SeqSlots : refreshFind(s)
  \/ \E s \in SeqSlots : forgotPasswordFind(s, "b@x.com")
  \/ \E s \in SeqSlots : forgotPasswordSave(s)
  \/ \E s \in SeqSlots : forgotPasswordMail(s)
  \/ \E s \in SeqSlots, t \in RawOf("reset"), p \in Passwords :
       resetPassword(s, t, p)
  \/ \E s \in SeqSlots : resetPasswordFind(s)
  \/ \E s \in SeqSlots : resetPasswordSave(s)
  \/ \E d \in {1, ResetTTL} : Tick(d)

SpecReset == Init /\ [][NextReset]_vars

\* Registration bodies in every combination of e-mail address and user
\* name, one of them asking for a role, and one without a password
RegisterBodies ==
  {Body(e, u, "pw1") : e \in RawEmails, u \in PlainNames}
  \cup {[Body("b@x.com", "bob", "pw2") EXCEPT !.role = "admin"],
        Body("a@x.com", "alice", Absent)}

\* Registrations and e-mail verifications, one request at a time
NextRegister ==
  \/ \E s \in SeqSlots, in \in RegisterBodies : registerFind(s, in)
  \/ \E s \in SeqSlots : registerHash(s)
  \/ \E s \in SeqSlots : registerCreate(s)
  \/ \E s \in SeqSlots : registerMail(s)
  \/ \E s \in SeqSlots, t \in {0} \cup Mailed : verifyEmail(s, t)
  \/ \E s \in SeqSlots : verifyEmailFind(s)
  \/ \E s \in SeqSlots : verifyEmailSave(s)
  \/ \E d \in {VerifyTTL} : Tick(d)

SpecRegister == Init /\ [][NextRegister]_vars

\* Registrations, verifications and requests for a new verification e-mail
NextVerify ==
  \/ NextRegister
  \/ \E s \in SeqSlots, e \in RawEmails : resendVerificationEmailFind(s, e)
  \/ \E s \in SeqSlots : resendVerificationEmailSave(s)
  \/ \E s \in SeqSlots : resendVerificationEmailMail(s)

SpecVerify == Init /\ [][NextVerify]_vars

\* Requests for a verification e-mail and for a password reset e-mail, with
\* addresses of no user, of an unverified user and of a verified user
NextEnumerate ==
  \/ \E s \in SeqSlots, in \in {Admin1, User2} : registerFind(s, in)
  \/ \E s \in SeqSlots : registerHash(s)
  \/ \E s \in SeqSlots : registerCreate(s)
  \/ \E s \in SeqSlots : registerMail(s)
  \/ \E s \in SeqSlots, t \in Mailed : verifyEmail(s, t)
  \/ \E s \in SeqSlots : verifyEmailFind(s)
  \/ \E s \in SeqSlots : verifyEmailSave(s)
  \/ \E s \in SeqSlots, e \in RawEmails : resendVerificationEmailFind(s, e)
  \/ \E s \in SeqSlots : resendVerificationEmailSave(s)
  \/ \E s \in SeqSlots : resendVerificationEmailMail(s)
  \/ \E s \in SeqSlots, e \in RawEmails : forgotPasswordFind(s, e)
  \/ \E s \in SeqSlots : forgotPasswordSave(s)
  \/ \E s \in SeqSlots : forgotPasswordMail(s)

SpecEnumerate == Init /\ [][NextEnumerate]_vars

\* Logins with every identifier and password, against accounts that are
\* registered, verified, disabled and enabled again
NextLogin ==
  \/ \E s \in SeqSlots, in \in {Admin1, User2} : registerFind(s, in)
  \/ \E s \in SeqSlots : registerHash(s)
  \/ \E s \in SeqSlots : registerCreate(s)
  \/ \E s \in SeqSlots : registerMail(s)
  \/ \E s \in SeqSlots, t \in Mailed : verifyEmail(s, t)
  \/ \E s \in SeqSlots : verifyEmailFind(s)
  \/ \E s \in SeqSlots : verifyEmailSave(s)
  \/ \E s \in SeqSlots, i \in SessionIdentifiers, p \in Passwords :
       loginFind(s, i, p)
  \/ \E s \in SeqSlots : loginCompare(s)
  \/ \E s \in SeqSlots : loginSave(s)
  \/ \E s \in SeqSlots, h \in Headers, target \in Ids, in \in SetActive :
       authProtect(s, h, "adminUpdateUser", target, in)
  \/ \E s \in SeqSlots : authProtectFind(s)
  \/ \E s \in SeqSlots : adminUpdateUserFind(s)
  \/ \E s \in SeqSlots : adminUpdateUserUpdate(s)

SpecLogin == Init /\ [][NextLogin]_vars

\* The identifier and password of each of the two accounts
Creds == {<<"a@x.com", "pw1">>, <<"alice", "pw2">>}

\* ... and refreshes with every token a client can hold
NextDisable ==
  \/ NextLogin
  \/ \E s \in SeqSlots, T \in Presentable : refresh(s, T)
  \/ \E s \in SeqSlots : refreshFind(s)

SpecDisable == Init /\ [][NextDisable]_vars

\* ... while a login and a change of isActive by the admin overlap
NextDisableRace ==
  \/ NextDisable
  \/ \E s \in Slots, c \in Creds : loginFind(s, c[1], c[2])
  \/ \E s \in Slots : loginCompare(s)
  \/ \E s \in Slots : loginSave(s)
  \/ \E s \in Slots, h \in Headers, target \in Ids, in \in SetActive :
       authProtect(s, h, "adminUpdateUser", target, in)
  \/ \E s \in Slots : authProtectFind(s)
  \/ \E s \in Slots : adminUpdateUserFind(s)
  \/ \E s \in Slots : adminUpdateUserUpdate(s)

SpecDisableRace == Init /\ [][NextDisableRace]_vars

\* ... while refresh tokens expire
NextReactivate ==
  \/ NextDisable
  \/ \E d \in {RefreshTTL} : Tick(d)

SpecReactivate == Init /\ [][NextReactivate]_vars

\* The sessions of two accounts: logins in different seconds, refreshes
\* with every token a client can hold, logouts, and refresh tokens expiring
NextRefresh ==
  \/ \E s \in SeqSlots, in \in SessionBodies : registerFind(s, in)
  \/ \E s \in SeqSlots : registerHash(s)
  \/ \E s \in SeqSlots : registerCreate(s)
  \/ \E s \in SeqSlots : registerMail(s)
  \/ \E s \in SeqSlots, t \in RawOf("verify") : verifyEmail(s, t)
  \/ \E s \in SeqSlots : verifyEmailFind(s)
  \/ \E s \in SeqSlots : verifyEmailSave(s)
  \/ \E s \in SeqSlots, c \in Creds : loginFind(s, c[1], c[2])
  \/ \E s \in SeqSlots : loginCompare(s)
  \/ \E s \in SeqSlots : loginSave(s)
  \/ \E s \in SeqSlots, T \in Presentable : refresh(s, T)
  \/ \E s \in SeqSlots : refreshFind(s)
  \/ \E s \in SeqSlots, T \in RefreshTokens : logoutFind(s, T)
  \/ \E s \in SeqSlots : logoutSave(s)
  \/ \E d \in {1, RefreshTTL} : Tick(d)

SpecRefresh == Init /\ [][NextRefresh]_vars

\* The first registration body without the role key
User1 == [Admin1 EXCEPT !.role = Absent]

\* Requests to the routes behind authProtect with every header a client can
\* send.  One person registers, with or without the admin role, logs in,
\* disables, enables or deletes the account and registers again, while
\* access tokens expire.
NextGate ==
  \/ \E s \in SeqSlots, in \in {Admin1, User1} : registerFind(s, in)
  \/ \E s \in SeqSlots : registerHash(s)
  \/ \E s \in SeqSlots : registerCreate(s)
  \/ \E s \in SeqSlots : registerMail(s)
  \/ \E s \in SeqSlots, t \in Mailed : verifyEmail(s, t)
  \/ \E s \in SeqSlots : verifyEmailFind(s)
  \/ \E s \in SeqSlots : verifyEmailSave(s)
  \/ \E s \in SeqSlots : loginFind(s, "a@x.com", "pw1")
  \/ \E s \in SeqSlots : loginCompare(s)
  \/ \E s \in SeqSlots : loginSave(s)
  \/ \E s \in SeqSlots, h \in Headers, target \in Ids, in \in SetActive :
       authProtect(s, h, "adminUpdateUser", target, in)
  \/ \E s \in SeqSlots : authProtectFind(s)
  \/ \E s \in SeqSlots : adminUpdateUserFind(s)
  \/ \E s \in SeqSlots : adminUpdateUserUpdate(s)
  \/ \E s \in SeqSlots, h \in Headers, target \in Ids :
       authProtect(s, h, "deleteUser", target, [none |-> TRUE])
  \/ \E s \in SeqSlots : deleteUser(s)
  \/ \E d \in {AccessTTL} : Tick(d)

SpecGate == Init /\ [][NextGate]_vars

\* Refreshes with every token a client can hold, of an account that logs
\* in in different seconds, is disabled or deleted and registered again,
\* while refresh tokens expire
NextPrecedence ==
  \/ \E s \in SeqSlots : registerFind(s, Admin1)
  \/ \E s \in SeqSlots : registerHash(s)
  \/ \E s \in SeqSlots : registerCreate(s)
  \/ \E s \in SeqSlots : registerMail(s)
  \/ \E s \in SeqSlots, t \in RawOf("verify") : verifyEmail(s, t)
  \/ \E s \in SeqSlots : verifyEmailFind(s)
  \/ \E s \in SeqSlots : verifyEmailSave(s)
  \/ \E s \in SeqSlots : loginFind(s, "a@x.com", "pw1")
  \/ \E s \in SeqSlots : loginCompare(s)
  \/ \E s \in SeqSlots : loginSave(s)
  \/ \E s \in SeqSlots, T \in Presentable : refresh(s, T)
  \/ \E s \in SeqSlots : refreshFind(s)
  \/ \E s \in SeqSlots, h \in Headers, target \in Ids, in \in SetActive :
       authProtect(s, h, "adminUpdateUser", target, in)
  \/ \E s \in SeqSlots : authProtectFind(s)
  \/ \E s \in SeqSlots : adminUpdateUserFind(s)
  \/ \E s \in SeqSlots : adminUpdateUserUpdate(s)
  \/ \E s \in SeqSlots, h \in Headers, target \in Ids :
       authProtect(s, h, "deleteUser", target, [none |-> TRUE])
  \/ \E s \in SeqSlots : deleteUser(s)
  \/ \E d \in {1, RefreshTTL} : Tick(d)

SpecPrecedence == Init /\ [][NextPrecedence]_vars

\* Requests to a route behind authProtect by an account that logs in in
\* different seconds, logs out and is disabled, while access tokens expire
NextSession ==
  \/ \E s \in SeqSlots : registerFind(s, Admin1)
  \/ \E s \in SeqSlots : registerHash(s)
  \/ \E s \in SeqSlots : registerCreate(s)
  \/ \E s \in SeqSlots : registerMail(s)
  \/ \E s \in SeqSlots, t \in RawOf("verify") : verifyEmail(s, t)
  \/ \E s \in SeqSlots : verifyEmailFind(s)
  \/ \E s \in SeqSlots : verifyEmailSave(s)
  \/ \E s \in SeqSlots : loginFind(s, "a@x.com", "pw1")
  \/ \E s \in SeqSlots : loginCompare(s)
  \/ \E s \in SeqSlots : loginSave(s)
  \/ \E s \in SeqSlots, T \in RefreshTokens : logoutFind(s, T)
  \/ \E s \in SeqSlots : logoutSave(s)
  \/ \E s \in SeqSlots, h \in Headers, target \in Ids, in \in SetActive :
       authProtect(s, h, "adminUpdateUser", target, in)
  \/ \E s \in SeqSlots : authProtectFind(s)
  \/ \E s \in SeqSlots : adminUpdateUserFind(s)
  \/ \E s \in SeqSlots : adminUpdateUserUpdate(s)
  \/ \E d \in {1, AccessTTL} : Tick(d)

SpecSession == Init /\ [][NextSession]_vars

\* What PATCH /users/:id/admin is sent to change a role
SetRole == {[role |-> r, isActive |-> Absent, other |-> FALSE] : r \in {"user", "admin"}}

\* The strings an id can be written as in the path
IdStrings == Ids \cup {UpperHex(id) : id \in Ids}

\* Role changes by an admin, of other users and of the admin's own record
NextDemote ==
  \/ \E s \in SeqSlots, in \in {Admin1, User2} : registerFind(s, in)
  \/ \E s \in SeqSlots : registerHash(s)
  \/ \E s \in SeqSlots : registerCreate(s)
  \/ \E s \in SeqSlots : registerMail(s)
  \/ \E s \in SeqSlots, t \in RawOf("verify") : verifyEmail(s, t)
  \/ \E s \in SeqSlots : verifyEmailFind(s)
  \/ \E s \in SeqSlots : verifyEmailSave(s)
  \/ \E s \in SeqSlots, c \in Creds : loginFind(s, c[1], c[2])
  \/ \E s \in SeqSlots : loginCompare(s)
  \/ \E s \in SeqSlots : loginSave(s)
  \/ \E s \in SeqSlots, h \in Headers, target \in IdStrings, in \in SetRole :
       authProtect(s, h, "adminUpdateUser", target, in)
  \/ \E s \in SeqSlots : authProtectFind(s)
  \/ \E s \in SeqSlots : adminUpdateUserFind(s)
  \/ \E s \in SeqSlots : adminUpdateUserUpdate(s)

SpecDemote == Init /\ [][NextDemote]_vars

\* What PATCH /users/:id/admin is sent: isActive, role, or a body with a
\* key other than these two
AdminInputs ==
  SetActive \cup SetRole \cup {[role |-> "admin", isActive |-> "false", other |-> TRUE]}

\* Requests to PATCH /users/:id/admin by an admin, by a user without the
\* role and by a former admin, for targets that exist and that do not
NextAdmin ==
  \/ \E s \in SeqSlots, in \in {Admin1, User2} : registerFind(s, in)
  \/ \E s \in SeqSlots : registerHash(s)
  \/ \E s \in SeqSlots : registerCreate(s)
  \/ \E s \in SeqSlots : registerMail(s)
  \/ \E s \in SeqSlots, t \in RawOf("verify") : verifyEmail(s, t)
  \/ \E s \in SeqSlots : verifyEmailFind(s)
  \/ \E s \in SeqSlots : verifyEmailSave(s)
  \/ \E s \in SeqSlots, c \in Creds : loginFind(s, c[1], c[2])
  \/ \E s \in SeqSlots : loginCompare(s)
  \/ \E s \in SeqSlots : loginSave(s)
  \/ \E s \in SeqSlots, h \in Headers, target \in Ids, in \in AdminInputs :
       authProtect(s, h, "adminUpdateUser", target, in)
  \/ \E s \in SeqSlots : authProtectFind(s)
  \/ \E s \in SeqSlots : adminUpdateUserFind(s)
  \/ \E s \in SeqSlots : adminUpdateUserUpdate(s)

SpecAdmin == Init /\ [][NextAdmin]_vars

\* What PATCH /users/me is sent: a new user name
ProfileInputs ==
  {[username |-> u, password |-> Absent, forbidden |-> {}] : u \in PlainNames}

ConcBodies == {Body(e, u, "pw1") : e \in RawEmails, u \in PlainNames}

\* Two requests at a time: registrations and profile updates interleave at
\* their awaits (verification and login, which only set the scene, run in
\* the first slot)
NextConc ==
  \/ \E s \in Slots, in \in ConcBodies : registerFind(s, in)
  \/ \E s \in Slots : registerHash(s)
  \/ \E s \in Slots : registerCreate(s)
  \/ \E s \in Slots : registerMail(s)
  \/ \E s \in SeqSlots, t \in Mailed : verifyEmail(s, t)
  \/ \E s \in SeqSlots : verifyEmailFind(s)
  \/ \E s \in SeqSlots : verifyEmailSave(s)
  \/ \E s \in SeqSlots, i \in PlainNames : loginFind(s, i, "pw1")
  \/ \E s \in SeqSlots : loginCompare(s)
  \/ \E s \in SeqSlots : loginSave(s)
  \/ \E s \in Slots, h \in Headers, in \in ProfileInputs :
       authProtect(s, h, "updateProfile", 0, in)
  \/ \E s \in Slots : authProtectFind(s)
  \/ \E s \in Slots : updateProfileFind(s)
  \/ \E s \in Slots : updateProfileCheck(s)
  \/ \E s \in Slots : updateProfileSave(s)

\* What PATCH /users/me is sent: any of a user name and a password, with
\* or without the keys email, role and isActive; among them a user name
\* and a password that fail the validation chain
ProfileBodies ==
  {[username |-> u, password |-> p, forbidden |-> f] :
     u \in PlainNames \cup {Absent}, p \in {StrongPassword, Absent},
     f \in {{}, {"email"}, {"role"}, {"isActive"}, {"email", "role"}}}
  \cup {[username |-> "b@x.com", password |-> Absent, forbidden |-> {}],
        [username |-> Absent, password |-> "pw1", forbidden |-> {}]}

\* The second account under a user name that passes the validation chain
User3 == Body("a@x.com", "bob", "pw1")

\* Profile updates of two accounts that are logged in, one request at a time
NextProfile ==
  \/ \E s \in SeqSlots, in \in {User2, User3} : registerFind(s, in)
  \/ \E s \in SeqSlots : registerHash(s)
  \/ \E s \in SeqSlots : registerCreate(s)
  \/ \E s \in SeqSlots : registerMail(s)
  \/ \E s \in SeqSlots, t \in RawOf("verify") : verifyEmail(s, t)
  \/ \E s \in SeqSlots : verifyEmailFind(s)
  \/ \E s \in SeqSlots : verifyEmailSave(s)
  \/ \E s \in SeqSlots, i \in PlainNames, p \in Passwords \cup {StrongPassword} :
       loginFind(s, i, p)
  \/ \E s \in SeqSlots : loginCompare(s)
  \/ \E s \in SeqSlots : loginSave(s)
  \/ \E s \in SeqSlots, h \in Headers, in \in ProfileBodies :
       authProtect(s, h, "updateProfile", 0, in)
  \/ \E s \in SeqSlots : authProtectFind(s)
  \/ \E s \in SeqSlots : updateProfileFind(s)
  \/ \E s \in SeqSlots : updateProfileCheck(s)
  \/ \E s \in SeqSlots : updateProfileSave(s)

SpecProfile == Init /\ [][NextProfile]_vars

SpecConc == Init /\ [][NextConc]_vars

\* Two logins at a time into one account, in the same second or in
\* different ones, and refreshes with the tokens they returned
NextRace ==
  \/ \E s \in SeqSlots : registerFind(s, User2)
  \/ \E s \in SeqSlots : registerHash(s)
  \/ \E s \in SeqSlots : registerCreate(s)
  \/ \E s \in SeqSlots : registerMail(s)
  \/ \E s \in SeqSlots, t \in RawOf("verify") : verifyEmail(s, t)
  \/ \E s \in SeqSlots : verifyEmailFind(s)
  \/ \E s \in SeqSlots : verifyEmailSave(s)
  \/ \E s \in Slots, i \in {"alice", "b@x.com"} : loginFind(s, i, "pw2")
  \/ \E s \in Slots : loginCompare(s)
  \/ \E s \in Slots : loginSave(s)
  \/ \E s \in SeqSlots, T \in RefreshTokens : refresh(s, T)
  \/ \E s \in SeqSlots : refreshFind(s)
  \/ \E d \in {1} : Tick(d)

SpecRace == Init /\ [][NextRace]_vars

\* Two verifications or two password resets at a time
NextOnce ==
  \/ \E s \in SeqSlots : registerFind(s, User2)
  \/ \E s \in SeqSlots : registerHash(s)
  \/ \E s \in SeqSlots : registerCreate(s)
  \/ \E s \in SeqSlots : registerMail(s)
  \/ \E s \in Slots, t \in RawOf("verify") : verifyEmail(s, t)
  \/ \E s \in Slots : verifyEmailFind(s)
  \/ \E s \in Slots : verifyEmailSave(s)
  \/ \E s \in SeqSlots : forgotPasswordFind(s, "b@x.com")
  \/ \E s \in SeqSlots : forgotPasswordSave(s)
  \/ \E s \in SeqSlots : forgotPasswordMail(s)
  \/ \E s \in Slots, t \in RawOf("reset"), p \in Passwords :
       resetPassword(s, t, p)
  \/ \E s \in Slots : resetPasswordFind(s)
  \/ \E s \in Slots : resetPasswordSave(s)

SpecOnce == Init /\ [][NextOnce]_vars

\* A verification and a request for a new verification e-mail at a time
NextResend ==
  \/ \E s \in SeqSlots : registerFind(s, User2)
  \/ \E s \in SeqSlots : registerHash(s)
  \/ \E s \in SeqSlots : registerCreate(s)
  \/ \E s \in SeqSlots : registerMail(s)
  \/ \E s \in Slots, e \in {"b@x.com"} : resendVerificationEmailFind(s, e)
  \/ \E s \in Slots : resendVerificationEmailSave(s)
  \/ \E s \in Slots : resendVerificationEmailMail(s)
  \/ \E s \in Slots, t \in RawOf("verify") : verifyEmail(s, t)
  \/ \E s \in Slots : verifyEmailFind(s)
  \/ \E s \in Slots : verifyEmailSave(s)

SpecResend == Init /\ [][NextResend]_vars

\* Logins and logouts of one account, two requests at a time
NextLogout ==
  \/ \E s \in SeqSlots : registerFind(s, User2)
  \/ \E s \in SeqSlots : registerHash(s)
  \/ \E s \in SeqSlots : registerCreate(s)
  \/ \E s \in SeqSlots : registerMail(s)
  \/ \E s \in SeqSlots, t \in RawOf("verify") : verifyEmail(s, t)
  \/ \E s \in SeqSlots : verifyEmailFind(s)
  \/ \E s \in SeqSlots : verifyEmailSave(s)
  \/ \E s \in Slots : loginFind(s, "alice", "pw2")
  \/ \E s \in Slots : loginCompare(s)
  \/ \E s \in Slots : loginSave(s)
  \/ \E s \in Slots, T \in RefreshTokens : logoutFind(s, T)
  \/ \E s \in Slots : logoutSave(s)
  \/ \E d \in {1} : Tick(d)

SpecLogout == Init /\ [][NextLogout]_vars

\* Role changes by two admins, two requests at a time
NextAdminRace ==
  \/ \E s \in SeqSlots, in \in {Admin1, User2} : registerFind(s, in)
  \/ \E s \in SeqSlots : registerHash(s)
  \/ \E s \in SeqSlots : registerCreate(s)
  \/ \E s \in SeqSlots : registerMail(s)
  \/ \E s \in SeqSlots, t \in RawOf("verify") : verifyEmail(s, t)
  \/ \E s \in SeqSlots : verifyEmailFind(s)
  \/ \E s \in SeqSlots : verifyEmailSave(s)
  \/ \E s \in SeqSlots, c \in Creds : loginFind(s, c[1], c[2])
  \/ \E s \in SeqSlots : loginCompare(s)
  \/ \E s \in SeqSlots : loginSave(s)
  \/ \E s \in Slots, h \in Headers, target \in Ids, in \in SetRole :
       authProtect(s, h, "adminUpdateUser", target, in)
  \/ \E s \in Slots : authProtectFind(s)
  \/ \E s \in Slots : adminUpdateUserFind(s)
  \/ \E s \in Slots : adminUpdateUserUpdate(s)

SpecAdminRace == Init /\ [][NextAdminRace]_vars

----------------------------------------------------------------------------
(* The session lifecycle: login, refresh, logout *)

\* Some user matches the identifier by e-mail or user name, the password
\* matches that user's hash, and that user is verified and active
LoginOk(identifier, password) ==
  \E o \in loginMatches(identifier) :
     /\ BcryptCompare(password, users[o].password)
     /\ users[o].isVerified /\ users[o].isActive

\* The password is the password of some user the identifier matches
PasswordRight(identifier, password) ==
  \E o \in loginMatches(identifier) : BcryptCompare(password, users[o].password)

\* C1: a login succeeds if and only if a user matches the identifier by
\* e-mail or user name, the password matches that user's hash and the user
\* is verified and active; a refusal with 403 names the flag that is off;
\* a failed login leaves every stored refreshToken as it was.
C1_LoginIffMatchVerifiedActive ==
  [][ (last'.op = "login" /\ last'.status # 0) =>
        LET i == last'.arg[1]
            p == last'.arg[2] IN
          /\ (last'.status = 200) <=> LoginOk(i, p)
          /\ last'.msg = "Please verify your email" =>
                \E o \in loginMatches(i) :
                   BcryptCompare(p, users[o].password) /\ ~users[o].isVerified
          /\ last'.msg = "Account is disabled" =>
                \E o \in loginMatches(i) :
                   BcryptCompare(p, users[o].password) /\ ~users[o].isActive
          /\ last'.status # 200 => users' = users ]_vars

\* C2: refresh(T) succeeds exactly when T is a refresh token whose
\* signature verifies and that has not expired (which refresh tests when
\* the request arrives), the user it names exists and is active, and T is
\* the token stored on that user (which it tests on the document findById
\* returns); the new access token is for that user; a forged token, and
\* any token naming an existing active user other than the stored one, is
\* answered 403.
C2_RefreshExactlyStored ==
  [][ /\ \A s \in Slots :
           (reqs[s] = Idle /\ last'.op = "refresh" /\ reqs' = [reqs EXCEPT ![s] = reqs'[s]]) =>
              LET T == last'.arg[1]
                  valid == T.kind = "refresh" /\ now < T.iat + RefreshTTL IN
                /\ valid <=> (reqs'[s].op = "refresh" /\ reqs'[s].pc = "find"
                                /\ reqs'[s].token = T)
                /\ ~valid => reqs'[s] = Idle /\ last'.status \in {401, 403}
                /\ T = ForgedToken => last'.status = 403
                /\ issued' = issued
      /\ \A s \in Slots :
           (reqs[s].op = "refresh" /\ reqs'[s] # reqs[s]) =>
              LET T == reqs[s].token IN
                /\ reqs'[s] = Idle /\ last'.op = "refresh" /\ last'.arg = <<T>>
                /\ (last'.status = 200) <=>
                      /\ T.userId \in Existing
                      /\ users[T.userId].isActive
                      /\ users[T.userId].refreshToken = T
                /\ last'.status = 200 =>
                      /\ [kind |-> "access", userId |-> T.userId, iat |-> now] \in issued'
                      /\ issued' \ issued \subseteq
                            {[kind |-> "access", userId |-> T.userId, iat |-> now]}
                /\ last'.status # 200 => issued' = issued
                /\ ( /\ T.userId \in Existing
                     /\ users[T.userId].isActive
                     /\ users[T.userId].refreshToken # T ) => last'.status = 403 ]_vars

\* A stored, unexpired refresh token was exchanged for an access token
C2_Witness ==
  /\ last.op = "refresh" /\ last.status = 200
  /\ last.arg[1].userId \in Existing
  /\ users[last.arg[1].userId].refreshToken = last.arg[1]
  /\ Cardinality({t \in issued : t.kind = "refresh"
                     /\ t.userId = last.arg[1].userId}) > 1

\* C3: a successful login stores the refresh token it returns, and every
\* refresh token an earlier login returned for that user is refused by
\* refresh with 403 from then on.
C3_LoginInvalidatesEarlierToken ==
  [][ \A s \in Slots :
        (reqs[s].op = "login" /\ reqs'[s] = Idle /\ last'.status = 200) =>
          /\ users'[reqs[s].id].refreshToken \in issued'
          /\ \A T \in issued :
                (T.kind = "refresh" /\ T.userId = reqs[s].id) =>
                   (refreshCheck(T).status = 403)' ]_vars

\* C4: once logout(T) has answered, no user who stored T still stores it
\* and refresh(T) is refused.
C4_LogoutEndsSession ==
  (last.op = "logout" /\ last.status = 200 /\ last.arg[1] # NoToken) =>
     /\ \A u \in Existing : users[u].refreshToken # last.arg[1]
     /\ refreshCheck(last.arg[1]).status # 200

\* C10: a login whose password is the password of no user the identifier
\* matches is answered 401 "Invalid credentials", whether or not a user
\* matches and whatever that user's flags; a 403 is only ever the answer to
\* a password that is right.
C10_WrongPasswordIndistinguishable ==
  (last.op = "login" /\ last.status # 0) =>
    LET i == last.arg[1]
        p == last.arg[2] IN
      /\ ~PasswordRight(i, p) =>
            last.status = 401 /\ last.msg = "Invalid credentials"
      /\ last.status = 403 => PasswordRight(i, p)

\* A wrong password for a user who is not verified or not active got 401
C10_Witness ==
  /\ last.op = "login" /\ last.status = 401
  /\ ~PasswordRight(last.arg[1], last.arg[2])
  /\ \E o \in loginMatches(last.arg[1]) :
        ~users[o].isVerified \/ ~users[o].isActive

----------------------------------------------------------------------------
(* Ephemeral tokens: e-mail verification and password reset *)

\* A step in which a handler receives a request op
Presents(op) ==
  last'.op = op /\ \A s \in Slots : reqs[s].op = op => reqs'[s] = reqs[s]

\* The step in which the findOne of the verifyEmail or resetPassword of
\* slot s returns
Looked(s) ==
  /\ reqs[s].op \in {"verifyEmail", "resetPassword"} /\ reqs[s].pc = "find"
  /\ reqs'[s] # reqs[s]

TTLOf(kind) == IF kind = "verify" THEN VerifyTTL ELSE ResetTTL

OpOf(kind) == IF kind = "verify" THEN "verifyEmail" ELSE "resetPassword"

\* C5: once verifyEmail(raw) has succeeded, every later verifyEmail with the
\* same raw token is answered 400 "Invalid or expired token" and changes no
\* user record.
C5_VerificationTokenSingleUse ==
  [][ \A s \in Slots :
        (Looked(s) /\ reqs[s].op = "verifyEmail" /\ reqs[s].token \in spent) =>
           /\ reqs'[s] = Idle
           /\ last'.op = "verifyEmail" /\ last'.arg = <<reqs[s].token>>
           /\ last'.status = 400 /\ last'.msg = "Invalid or expired token"
           /\ users' = users ]_vars

\* A verification token that had been accepted was presented again
C5_Witness ==
  /\ last.op = "verifyEmail" /\ last.status = 400
  /\ last.arg[1] \in spent
  /\ \E o \in Existing : users[o].isVerified

\* C6: a raw token presented when its lifetime (24 h for a verification
\* token, 1 h for a reset token, counted from the moment it was issued) is
\* over is answered 400 "Invalid or expired token", and the call changes no
\* user record.  The moment it is presented is the one the handler reads
\* the clock at, when the request arrives.
C6_ExpiredTokenRejected ==
  [][ \A s \in Slots, k \in 1..Len(mail) :
        ( /\ Looked(s) /\ reqs[s].op = OpOf(mail[k].kind)
          /\ reqs[s].token = k
          /\ reqs[s].at >= mail[k].at + TTLOf(mail[k].kind) ) =>
           /\ reqs'[s] = Idle
           /\ last'.status = 400 /\ last'.msg = "Invalid or expired token"
           /\ users' = users ]_vars

\* C7: a raw token is answered 400 "Invalid or expired token" once a newer
\* token of its kind has been issued to the same user, and of the tokens
\* issued to a user at most one of each kind is accepted at any time.
C7_NewTokenInvalidatesPrevious ==
  [][ /\ \A k1 \in 1..Len(mail), k2 \in 1..Len(mail) :
           ( /\ k1 < k2
             /\ mail[k1].kind = mail[k2].kind
             /\ mail[k1].userId = mail[k2].userId
             /\ \E s \in Slots :
                   /\ Looked(s) /\ reqs[s].op = OpOf(mail[k1].kind)
                   /\ reqs[s].token = k1 ) =>
              /\ last'.status = 400 /\ last'.msg = "Invalid or expired token"
              /\ users' = users
      /\ \A o \in Existing :
           /\ Cardinality({k \in RawOf("verify") : o \in verifyEmailMatches(k, now)}) <= 1
           /\ Cardinality({k \in RawOf("reset") : o \in resetPasswordMatches(k, now)}) <= 1
    ]_vars

----------------------------------------------------------------------------
(* Registration and the uniqueness of e-mail addresses and user names *)

\* The e-mail address or the user name of the body belongs to a user
Taken(in) ==
  \E o \in Existing :
     users[o].email = Lowercase(in.email) \/ users[o].username = in.username

\* C8: a registration whose e-mail address or user name belongs to an
\* existing user is answered 409 and creates no record; one with a fresh
\* e-mail address and user name is answered 201 and creates exactly one
\* record, with isVerified = false.
\* The request is followed through its steps: the look-up answers the
\* conflict; the insert that follows a look-up that found nobody adds the
\* record; the only answer after the insert is 201.
C8_RegisterConflictOrUnverified ==
  [][ /\ ( /\ Presents("register")
           /\ Absent \notin {last'.arg[1].email, last'.arg[1].username,
                              last'.arg[1].password} ) =>
           /\ users' = users
           /\ last'.status = IF Taken(last'.arg[1]) THEN 409 ELSE 0
      /\ \A s \in Slots :
           (reqs[s].op = "register" /\ reqs'[s] # reqs[s]) =>
              LET in == reqs[s].in IN
                CASE reqs[s].pc = "hash" ->
                       users' = users /\ reqs'[s].pc = "create"
                  [] reqs[s].pc = "create" ->
                       /\ reqs'[s].pc = "mail"
                       /\ DOMAIN users' = Existing \cup {nextId}
                       /\ \A o \in Existing : users'[o] = users[o]
                       /\ users'[nextId].email = Lowercase(in.email)
                       /\ users'[nextId].username = in.username
                       /\ ~users'[nextId].isVerified
                  [] reqs[s].pc = "mail" ->
                       /\ users' = users
                       /\ last'.op = "register" /\ last'.status = 201
                       /\ last'.arg[1] = in ]_vars

\* A registration was refused because of its user name alone, and another
\* one created an unverified account next to a verified one
C8_Witness ==
  /\ last.op = "register" /\ last.status = 409
  /\ \E o \in Existing :
        /\ users[o].username = last.arg[1].username
        /\ users[o].email # Lowercase(last.arg[1].email)
  /\ \E o1, o2 \in Existing : users[o1].isVerified /\ ~users[o2].isVerified
  /\ issued = {} /\ Cardinality(Mailed) = 2

\* C9: no two user records share an e-mail address and no two share a user
\* name, however registrations and profile updates interleave.
C9_UniqueEmailAndUsername ==
  \A o1, o2 \in Existing :
     o1 # o2 => /\ users[o1].email # users[o2].email
                /\ users[o1].username # users[o2].username

\* A profile update lost the race for a user name against a registration
\* that passed its own look-up: the unique index refused the write
C9_Witness ==
  /\ last.op = "updateProfile" /\ last.msg = "already exists"
  /\ Cardinality(Existing) = 2

----------------------------------------------------------------------------
(* Anti-enumeration, disabled accounts and the gate *)

\* C11: every answer of resendVerification(email) and of
\* forgotPassword(email) is the same success response, whether the e-mail
\* address belongs to no user, to an unverified user or to a verified user.
C11_SameAnswerWhateverTheStore ==
  [][ last'.op \in {"resendVerification", "forgotPassword"} =>
        /\ last'.status # 0 => last'.status = 200 /\ last'.msg = "ok"
        /\ \A o \in Existing \ FindByEmail(last'.arg[1]) :
              users'[o] = users[o] ]_vars

\* forgotPassword answered 200 for an address of no user, after it had
\* answered 200 to a verified user and mailed a reset token
C11_Witness ==
  /\ last.op = "forgotPassword" /\ last.status = 200
  /\ FindByEmail(last.arg[1]) = {}
  /\ \E o \in Existing :
        users[o].isVerified /\ users[o].passwordResetToken # NoHash

\* A request arrives at a route behind the gate: authProtect reads the
\* header and verifies the token (the requests under way stay where they
\* are)
GateArrive ==
  /\ last'.op = "authProtect"
  /\ \A s \in Slots : reqs[s] # Idle => reqs'[s] = reqs[s]

\* The findById of authProtect returns and the gate decides
GateStep ==
  \E s \in Slots : reqs[s].op = "authProtect" /\ reqs'[s] # reqs[s]

\* ... in which authProtect called next()
GatePassed == GateStep /\ last'.op # "authProtect"

\* C12: while a user's isActive is false, authProtect answers 403 to every
\* access token issued to that user, refresh is refused for every token of
\* that user, and every login that arrives is refused whatever the
\* password: the document it loads is the disabled one, and the checks
\* that follow bcrypt.compare refuse it.  No step lets such a login,
\* refresh or gate check through, also while requests overlap.
C12_DisabledAccountIsShutOut ==
  [][ /\ \A u \in Existing : ~users[u].isActive =>
           /\ \A T \in issued : T.userId = u =>
                 /\ authProtectCheck([scheme |-> "Bearer", token |-> T]).status = 403
                 /\ refreshCheck(T).status \in {401, 403}
           /\ \A p \in Passwords : loginCheck(users[u], p).status \in {401, 403}
           /\ ~(GatePassed /\ last'.arg[1].token.userId = u)
           /\ ~( /\ last'.op = "refresh" /\ last'.status = 200
                 /\ last'.arg[1].userId = u )
           /\ \A s \in Slots :
                 ( /\ reqs[s] = Idle /\ reqs'[s] # Idle
                   /\ reqs'[s].op = "login" /\ reqs'[s].id = u ) =>
                    ~reqs'[s].doc.isActive
      /\ \A s \in Slots :
           ( /\ reqs[s].op = "login" /\ ~reqs[s].doc.isActive
             /\ reqs'[s] # reqs[s] ) =>
              /\ reqs'[s] = Idle
              /\ last'.op = "login" /\ last'.status \in {401, 403}
              /\ users' = users /\ issued' = issued ]_vars

\* The gate answered 403 to an unexpired access token of a disabled user
\* who still stores the refresh token of their session
C12_Witness ==
  /\ last.op = "authProtect" /\ last.status = 403
  /\ last.arg[1].scheme = "Bearer"
  /\ JwtVerify(last.arg[1].token, "access")
  /\ last.arg[1].token.userId \in Existing
  /\ ~users[last.arg[1].token.userId].isActive
  /\ users[last.arg[1].token.userId].refreshToken # NoToken

\* A login with the right password arrived while the account was disabled,
\* and was refused with "Account is disabled"
C12_WitnessLogin ==
  /\ last.op = "login" /\ last.msg = "Account is disabled"
  /\ \E o \in Existing :
        /\ ~users[o].isActive /\ users[o].isVerified
        /\ BcryptCompare(last.arg[2], users[o].password)
        /\ users[o].refreshToken # NoToken

\* C13: authProtect answers 401 when the Authorization header is missing
\* or not of the Bearer form; 403 when the token is not an access token
\* signed by the server or has expired, when the user it names is gone, or
\* when that user is disabled; and otherwise calls next() with the token's
\* userId and the role stored for that user at that moment.
C13_GateOutcomes ==
  [][ /\ GateArrive =>
           LET h == last'.arg[1]
               T == h.token
               bad == T.kind # "access" \/ now >= T.iat + AccessTTL IN
             /\ h.scheme # "Bearer" => last'.status = 401
             /\ (h.scheme = "Bearer" /\ bad) => last'.status = 403
             /\ (h.scheme = "Bearer" /\ ~bad) =>
                   /\ last'.status = 0
                   /\ \E s \in Slots : reqs[s] = Idle /\ reqs'[s].op = "authProtect"
                                          /\ reqs'[s].h = h
             /\ last'.status # 0 => reqs' = reqs
             /\ users' = users
      /\ \A s \in Slots :
           (reqs[s].op = "authProtect" /\ reqs'[s] # reqs[s]) =>
              LET T == reqs[s].h.token
                  bad == T.userId \notin Existing \/ ~users[T.userId].isActive IN
                /\ bad => /\ reqs'[s] = Idle
                          /\ last'.op = "authProtect" /\ last'.status = 403
                /\ ~bad =>
                      /\ last'.op = reqs[s].route
                      /\ reqs'[s] # Idle =>
                            /\ reqs'[s].op = reqs[s].route /\ reqs'[s].pc = "handler"
                            /\ reqs'[s].userId = T.userId
                            /\ reqs'[s].userRole = users[T.userId].role
                      /\ reqs'[s] = Idle =>
                            \/ last'.status = 403 /\ users[T.userId].role # "admin"
                            \/ last'.status = 422
                /\ users' = users ]_vars

\* A request of a user without the admin role passed the gate with that
\* role attached, after the clock had passed the expiry of an earlier
\* access token and an earlier account had been deleted
C13_Witness ==
  /\ last.op = "deleteUser" /\ last.msg = "pending"
  /\ \E s \in Slots :
        /\ reqs[s].op = "deleteUser"
        /\ reqs[s].userRole = "user"
        /\ users[reqs[s].userId].role = "user"
  /\ now >= AccessTTL
  /\ \E T \in issued : T.kind = "access" /\ T.userId \notin Existing

----------------------------------------------------------------------------
(* Password reset *)

\* The step in which the resetPassword of slot s answers 200
ResetDone(s) ==
  /\ reqs[s].op = "resetPassword" /\ reqs[s].pc = "save"
  /\ last'.op = "resetPassword" /\ last'.status = 200

\* C14: when resetPassword(raw, newPassword) answers 200, the record it
\* matched stores the hash of newPassword (the credential check of login
\* passes with newPassword and answers 401 with any other password) and
\* its reset token and expiry are cleared, so raw no longer matches it.
C14_ResetReplacesPassword ==
  [][ \A s \in Slots, id \in Ids, raw \in 1..Len(mail), newPassword \in Passwords :
        ( /\ ResetDone(s)
          /\ reqs[s].id = id
          /\ last'.arg = <<raw, newPassword>> ) =>
          /\ users'[id].password = BcryptHash(newPassword)
          /\ \A p \in Passwords :
                (loginCheck(users'[id], p).status = 401) <=> (p # newPassword)
          /\ users'[id].passwordResetToken = NoHash
          /\ users'[id].passwordResetExpires = NoDate
          /\ (id \notin resetPasswordMatches(raw, 0))' ]_vars

\* A reset replaced a password by a different one
C14_Witness ==
  /\ last.op = "resetPassword" /\ last.status = 200
  /\ \E o \in Existing :
        /\ mail[last.arg[1]].userId = o
        /\ users[o].password = BcryptHash(last.arg[2])
        /\ users[o].password # BcryptHash("pw1")
        /\ users[o].username = "b@x.com"
        /\ users[o].passwordResetToken = NoHash

\* C15: resetPassword leaves refreshToken, isVerified, isActive and role of
\* every record as they were, so a refresh token that refresh accepted
\* before the reset is accepted after it.
C15_ResetKeepsSession ==
  [][ \A s \in Slots : ResetDone(s) =>
        /\ \A o \in Existing :
              /\ users'[o].refreshToken = users[o].refreshToken
              /\ users'[o].isVerified = users[o].isVerified
              /\ users'[o].isActive = users[o].isActive
              /\ users'[o].role = users[o].role
        /\ \A T \in issued :
              refreshCheck(T).status = 200 => (refreshCheck(T).status = 200)' ]_vars

\* A logged-in user reset their password and refreshed afterwards
C15_Witness ==
  /\ last.op = "refresh" /\ last.status = 200
  /\ \E k \in spent :
        /\ mail[k].kind = "reset"
        /\ mail[k].userId = last.arg[1].userId
        /\ mail[k].at >= last.arg[1].iat

----------------------------------------------------------------------------
(* Refresh: no rotation, no revocation *)

\* refresh(T) finds a validly signed, unexpired refresh token that is not
\* the one stored on its existing, active user
ReuseDetected(T) ==
  /\ T.kind = "refresh" /\ now < T.iat + RefreshTTL
  /\ T.userId \in Existing
  /\ users[T.userId].isActive
  /\ users[T.userId].refreshToken # T

\* The step in which the findById of a refresh that presented T returns
\* such a user: the token was verified when the request arrived
Reused(T) ==
  /\ \E s \in Slots : /\ reqs[s].op = "refresh" /\ reqs[s].token = T
                       /\ reqs'[s] # reqs[s]
  /\ T.userId \in Existing
  /\ users[T.userId].isActive
  /\ users[T.userId].refreshToken # T

\* C16: refresh changes no user record, whatever it answers: the stored
\* token is not replaced on success and not cleared on a mismatch, so every
\* token refresh would accept before the call it accepts after it.
C16_RefreshWritesNothing ==
  [][ last'.op = "refresh" =>
        /\ users' = users
        /\ \A T \in issued :
              refreshCheck(T).status = 200 => (refreshCheck(T).status = 200)' ]_vars

\* A refresh succeeded with the token a login stored in an earlier second,
\* and that token is still the stored one
C16_Witness ==
  /\ last.op = "refresh" /\ last.status = 200
  /\ users[last.arg[1].userId].refreshToken = last.arg[1]
  /\ last.arg[1].iat < now

\* C17 as stated: when refresh detects reuse it clears the stored
\* refreshToken of the user.
C17_ReuseClearsStoredToken ==
  [][ \A T \in issued :
        Reused(T) => users'[T.userId].refreshToken = NoToken ]_vars

\* C17, amended: when refresh detects reuse it answers 403 "Forbidden:
\* Invalid Token" and leaves the stored refreshToken of the user as it is:
\* the session of the stored token goes on.
C17_ReuseOnlyRejected ==
  [][ \A T \in issued :
        Reused(T) =>
           /\ last'.op = "refresh" /\ last'.arg = <<T>>
           /\ last'.status = 403 /\ last'.msg = "Forbidden: Invalid Token"
           /\ users'[T.userId].refreshToken = users[T.userId].refreshToken ]_vars

\* The token of a superseded session was refused, and the token that
\* superseded it is still stored and still accepted
C17_Witness ==
  /\ last.op = "refresh" /\ last.msg = "Forbidden: Invalid Token"
  /\ last.arg[1].userId \in Existing
  /\ users[last.arg[1].userId].refreshToken # NoToken
  /\ users[last.arg[1].userId].refreshToken.iat > last.arg[1].iat
  /\ refreshCheck(users[last.arg[1].userId].refreshToken).status = 200

----------------------------------------------------------------------------
(* Concurrent requests *)

\* C18: when two logins into one account overlap and return different
\* refresh tokens, the token of the login whose update reached the database
\* last is the one stored (a login whose token is the one it loaded sends
\* no update): refresh accepts that token and answers 403 to the other.
C18_LastWriterWins ==
  [][ \A s \in Slots, u \in Ids, T1 \in issued :
        ( /\ last.op = "login" /\ last.status = 200 /\ last.refreshTkn = T1
          /\ reqs[s].op = "login" /\ reqs[s].id = u /\ T1.userId = u
          /\ reqs[s].refreshTkn # T1
          /\ reqs'[s] = Idle /\ last'.status = 200 ) =>
          LET T2 == reqs[s].refreshTkn
              loaded == reqs[s].refreshToken IN
            /\ users'[u].refreshToken = IF T2 # loaded THEN T2
                                         ELSE users[u].refreshToken
            /\ users'[u].refreshToken \in {T1, T2}
            /\ \A T \in {T1, T2} :
                  (refreshCheck(T).status)' =
                     IF T = users'[u].refreshToken THEN 200 ELSE 403 ]_vars

\* Two overlapping logins returned different tokens and the one that was
\* signed first is the one stored: its update was the last to arrive
C18_Witness ==
  /\ last.op = "login" /\ last.status = 200
  /\ \A s \in Slots : reqs[s] = Idle
  /\ \E u \in Existing :
        /\ users[u].refreshToken = last.refreshTkn
        /\ \E T \in issued :
              /\ T.kind = "refresh" /\ T.userId = u
              /\ T.iat > last.refreshTkn.iat

\* C19: however requests interleave, no e-mailed raw token is accepted
\* twice: a verifyEmail or resetPassword that answers 200 presents a token
\* that no earlier call was answered 200 for.
C19_EphemeralTokenAcceptedOnce ==
  [][ \A s \in Slots :
        ( /\ reqs[s].op \in {"verifyEmail", "resetPassword"}
          /\ reqs'[s] = Idle /\ last'.status = 200 ) =>
           reqs[s].token \notin spent ]_vars

----------------------------------------------------------------------------
(* Administration *)

\* C20: an adminUpdateUser that an admin sends for their own id with
\* role = "user" is answered 400 and changes nothing, and no adminUpdateUser
\* of an admin leaves that admin's own record with another role than admin.
C20_AdminCannotDemoteSelf ==
  [][ \A s \in Slots, u \in Existing :
        ( /\ reqs[s].op = "adminUpdateUser" /\ reqs[s].userId = u
          /\ reqs'[s] = Idle
          /\ users[u].role = "admin" ) =>
          /\ users'[u].role = "admin"
          /\ (castObjectId(reqs[s].target) = u /\ reqs[s].in.role = "user") =>
                last'.status = 400 /\ users' = users ]_vars

----------------------------------------------------------------------------
(* Token kinds and the precedence of refresh failures *)

\* C21: a refresh token in the Authorization header never passes
\* authProtect (it is answered 403), and an access token in the jwt cookie
\* is never exchanged by refresh (it is answered 403 and no token is
\* signed), even when the token is unexpired and names an existing, active
\* user who stores it.
C21_TokenKindsNotInterchangeable ==
  [][ /\ \A T \in issued :
           /\ T.kind = "refresh" =>
                 authProtectCheck([scheme |-> "Bearer", token |-> T]).status = 403
           /\ T.kind = "access" => refreshCheck(T).status = 403
      /\ GateArrive =>
           (last'.arg[1].token.kind = "refresh" => last'.status = 403)
      /\ (last'.op = "refresh" /\ last'.arg[1].kind = "access") =>
           last'.status = 403 /\ issued' = issued
      /\ \A s \in Slots :
           /\ reqs[s].op = "authProtect" => reqs[s].h.token.kind = "access"
           /\ reqs[s].op = "refresh" => reqs[s].token.kind = "refresh" ]_vars

\* The gate refused the refresh token that refresh accepts for an active
\* user, while an access token of that user passes the gate
C21_Witness ==
  /\ last.op = "authProtect" /\ last.status = 403
  /\ last.arg[1].token.kind = "refresh"
  /\ refreshCheck(last.arg[1].token).status = 200
  /\ \E T \in issued :
        /\ T.kind = "access" /\ T.userId = last.arg[1].token.userId
        /\ authProtectCheck([scheme |-> "Bearer", token |-> T]).status = 200

\* C22: refresh answers 401 when no token is presented; otherwise 403 when
\* the token is not a refresh token signed by the server or has expired;
\* otherwise 401 when the user it names is gone or disabled, also when the
\* token is not the stored one; otherwise 403 when the token is not the
\* stored one; and 200 otherwise.
C22_RefreshFailurePrecedence ==
  [][ /\ Presents("refresh") =>
           LET T == last'.arg[1] IN
             last'.status =
               IF T = NoToken THEN 401
               ELSE IF T.kind # "refresh" \/ now >= T.iat + RefreshTTL THEN 403
               ELSE 0
      /\ \A s \in Slots :
           (reqs[s].op = "refresh" /\ reqs'[s] # reqs[s]) =>
              LET T == reqs[s].token IN
                /\ last'.op = "refresh" /\ last'.arg = <<T>>
                /\ last'.status =
                      IF T.userId \notin Existing THEN 401
                      ELSE IF ~users[T.userId].isActive THEN 401
                      ELSE IF users[T.userId].refreshToken # T THEN 403
                      ELSE 200 ]_vars

\* The unexpired token of a superseded session was presented for a user
\* who is disabled and stores a newer token: the answer was 401
C22_Witness ==
  /\ last.op = "refresh" /\ last.status = 401
  /\ last.arg[1].kind = "refresh" /\ now < last.arg[1].iat + RefreshTTL
  /\ last.arg[1].userId \in Existing
  /\ ~users[last.arg[1].userId].isActive
  /\ users[last.arg[1].userId].refreshToken \notin {NoToken, last.arg[1]}

----------------------------------------------------------------------------
(* What the update routes may change *)

\* C23: adminUpdateUser changes nothing but role and isActive of its
\* target.  A requester whose stored role is not admin is answered 403, a
\* body with a key other than role and isActive 400, a target that does not
\* exist 404, and every answer other than 200 leaves all records as they
\* were.
C23_AdminUpdateFrame ==
  [][ /\ (GateStep /\ last'.op = "adminUpdateUser") =>
           /\ users' = users
           /\ IF users[last'.arg[1].token.userId].role = "admin"
                THEN last'.status = 0
                ELSE last'.status = 403
      /\ \A s \in Slots :
           (reqs[s].op = "adminUpdateUser" /\ reqs'[s] # reqs[s]) =>
             LET r == reqs[s]
                 target == castObjectId(r.target) IN
               /\ (r.pc = "handler" /\ r.in.other) => last'.status = 400
               /\ ( /\ r.pc = "handler" /\ ~r.in.other
                    /\ (r.userId \notin Existing \/ users[r.userId].role # "admin") ) =>
                     last'.status = 403
               /\ (r.pc = "update" /\ target \notin Existing) => last'.status = 404
               /\ last'.status # 200 => users' = users
               /\ last'.status = 200 =>
                     /\ DOMAIN users' = Existing
                     /\ target \in Existing
                     /\ \A o \in Existing \ {target} : users'[o] = users[o]
                     /\ [users'[target] EXCEPT
                           !.role = users[target].role,
                           !.isActive = users[target].isActive] = users[target]
    ]_vars

\* An admin changed the role and the flag of another user who is logged
\* in and holds a reset-free, verified record
C23_Witness ==
  /\ last.op = "adminUpdateUser" /\ last.status = 200
  /\ \E o \in Existing :
        /\ o = last.arg[2] /\ o # last.arg[1].token.userId
        /\ users[o].role = "admin" /\ ~users[o].isActive
        /\ users[o].isVerified
        /\ users[o].refreshToken # NoToken

\* C24: updateProfile changes nothing but the user name and the password of
\* the requesting user.  A body with the key email is answered 400, one
\* with role or isActive 403, one with a user name that another user holds
\* 409, and every answer other than 200 leaves all records as they were;
\* a 200 stores the user name and the hash of the password that were sent.
C24_UpdateProfileFrame ==
  [][ /\ (GateStep /\ last'.op = "updateProfile") =>
           /\ users' = users
           /\ last'.status = IF updateUserValidation(last'.arg[3]) THEN 0 ELSE 422
      /\ \A s \in Slots, u \in Ids :
        ( /\ reqs[s].op = "updateProfile" /\ reqs[s].userId = u
          /\ reqs'[s] # reqs[s] ) =>
          LET r == reqs[s] IN
            /\ DOMAIN users' = Existing
            /\ \A o \in Existing \ {u} : users'[o] = users[o]
            /\ u \in Existing =>
                  [users'[u] EXCEPT !.username = users[u].username,
                                    !.password = users[u].password] = users[u]
            /\ last'.status # 200 => users' = users
            /\ (r.pc = "handler" /\ "email" \in r.in.forbidden) =>
                  last'.status = 400
            /\ ( /\ r.pc = "handler" /\ "email" \notin r.in.forbidden
                 /\ r.in.forbidden # {} ) => last'.status = 403
            /\ ( /\ r.pc = "check"
                 /\ \E o \in Existing \ {u} : users[o].username = r.in.username ) =>
                  last'.status = 409
            /\ last'.status = 200 =>
                  /\ r.in.forbidden = {}
                  /\ users'[u].username =
                        IF r.in.username # Absent THEN r.in.username
                        ELSE users[u].username
                  /\ users'[u].password =
                        IF r.in.password # Absent THEN BcryptHash(r.in.password)
                        ELSE users[u].password ]_vars

\* A logged-in user changed both their user name and their password
C24_Witness ==
  /\ last.op = "updateProfile" /\ last.status = 200
  /\ \E o \in Existing :
        /\ o = last.arg[1].token.userId
        /\ users[o].email = "b@x.com"
        /\ users[o].username = "bob" /\ last.arg[3].username = "bob"
        /\ users[o].password = BcryptHash(StrongPassword)
        /\ last.arg[3].password = StrongPassword
        /\ users[o].refreshToken # NoToken

\* C25: every record register creates has role = "user", isVerified =
\* false, isActive = true, no refreshToken and no password-reset token or
\* expiry, whatever other keys the registration body carries.
C25_RegisterCreatesPlainUser ==
  [][ (\E s \in Slots : /\ reqs[s].op = "register" /\ reqs[s].pc = "create"
                        /\ reqs'[s].pc = "mail") =>
        /\ users'[nextId].role = "user"
        /\ ~users'[nextId].isVerified
        /\ users'[nextId].isActive
        /\ users'[nextId].refreshToken = NoToken
        /\ users'[nextId].passwordResetToken = NoHash
        /\ users'[nextId].passwordResetExpires = NoDate ]_vars

----------------------------------------------------------------------------
(* Verification against a concurrent resend *)

\* C26: in every reachable state, also when a verifyEmail and a
\* resendVerification interleave, a user with isVerified = true stores no
\* verification token hash and no verification expiry.
C26_VerifiedStoresNoToken ==
  \A o \in Existing :
     users[o].isVerified =>
        /\ users[o].emailVerificationToken = NoHash
        /\ users[o].emailVerificationExpires = NoDate

----------------------------------------------------------------------------
(* Logout against a concurrent login *)

\* C27: logout(T) clears no stored refresh token other than T: when a
\* logout that presents an older token completes, also while a login of
\* the same user is under way or has just finished, every stored token
\* that is not T is still stored.
C27_LogoutClearsOnlyItsToken ==
  [][ \A s \in Slots :
        (reqs[s].op = "logout" /\ reqs'[s] = Idle) =>
          \A o \in Existing :
             users[o].refreshToken # reqs[s].token =>
                /\ o \in DOMAIN users'
                /\ users'[o].refreshToken = users[o].refreshToken ]_vars

----------------------------------------------------------------------------
(* Access tokens and the stored refresh token *)

\* The Authorization header that carries token T
Bearer(T) == [scheme |-> "Bearer", token |-> T]

\* C28: authProtect does not look at the stored refreshToken: an access
\* token that has not expired passes the gate whenever its user exists
\* and is active, so a token the gate accepted before a logout or a newer
\* login it accepts after it.
C28_GateIgnoresStoredRefreshToken ==
  [][ /\ \A T \in issued :
           ( /\ T.kind = "access" /\ now < T.iat + AccessTTL
             /\ T.userId \in Existing /\ users[T.userId].isActive ) =>
              /\ authProtectCheck(Bearer(T)).status = 200
              /\ (GateArrive /\ last'.arg[1] = Bearer(T)) => last'.status = 0
              /\ (GateStep /\ last'.arg[1] = Bearer(T)) => last'.op # "authProtect"
      /\ last'.op \in {"login", "logout"} =>
           \A T \in issued :
              authProtectCheck(Bearer(T)).status = 200 =>
                 (authProtectCheck(Bearer(T)).status = 200)' ]_vars

\* A request passed the gate with the access token of a session that a
\* logout had ended: the user stores no refresh token
C28_Witness ==
  /\ last.op = "adminUpdateUser" /\ last.msg = "pending"
  /\ users[last.arg[1].token.userId].refreshToken = NoToken
  /\ [last.arg[1].token EXCEPT !.kind = "refresh"] \in issued

----------------------------------------------------------------------------
(* Concurrent administration *)

\* C29: however adminUpdateUser requests interleave, a change of role or
\* isActive is written only while the stored role of the requester is
\* admin.
C29_ChangeWrittenByAdminOnly ==
  [][ \A s \in Slots :
        ( /\ reqs[s].op = "adminUpdateUser" /\ reqs[s].pc = "update"
          /\ reqs'[s] = Idle /\ users' # users ) =>
          /\ reqs[s].userId \in Existing
          /\ users[reqs[s].userId].role = "admin" ]_vars

----------------------------------------------------------------------------
(* Deactivation and the session *)

\* The refresh tokens of user u that have not expired
Live(u) ==
  {T \in issued : T.kind = "refresh" /\ T.userId = u /\ now < T.iat + RefreshTTL}

\* C30: adminUpdateUser leaves every stored refreshToken as it is.  While
\* a user is disabled, refresh answers 401 to the unexpired token stored
\* for them, and the adminUpdateUser that sets isActive back to true makes
\* refresh accept that token again; a token that has expired stays
\* refused.
C30_ReactivationRestoresSession ==
  [][ /\ last'.op = "adminUpdateUser" =>
           \A o \in Existing : users'[o].refreshToken = users[o].refreshToken
      /\ \A u \in Existing, T \in issued :
           (T.kind = "refresh" /\ T.userId = u /\ users[u].refreshToken = T
              /\ ~users[u].isActive) =>
             /\ T \in Live(u) => refreshCheck(T).status = 401
             /\ (last'.op = "adminUpdateUser" /\ users'[u].isActive) =>
                   (refreshCheck(T).status)' = IF T \in Live(u) THEN 200 ELSE 403
    ]_vars

\* An admin is about to enable a disabled user who still stores the
\* unexpired refresh token of the session they had when they were disabled
C30_Witness ==
  \E s \in Slots, u \in Existing :
     /\ reqs[s].op = "adminUpdateUser" /\ reqs[s].pc = "update"
     /\ reqs[s].target = u /\ reqs[s].in.isActive = "true"
     /\ ~users[u].isActive
     /\ users[u].refreshToken \in Live(u)
     /\ refreshCheck(users[u].refreshToken).status = 401

====
